---- MODULE Spec2Model ----
(***************************************************************************)
(* A model of the vscode-gitattributes extension: the expiring in-memory   *)
(* cache (src/src/cache.ts), the catalog fetcher getFiles, the merge       *)
(* engine download, the deduplication pass and the handler of the command  *)
(* 'addgitattributes' (src/src/extension.ts).                              *)
(*                                                                         *)
(* Strings the code inspects (file names, file contents, lines) are        *)
(* sequences of one-character strings, so that endsWith, replace, split    *)
(* and match are computed and not assumed.  Times are milliseconds, as     *)
(* Date.now() gives them; the expiration interval is in seconds.           *)
(***************************************************************************)
EXTENDS Integers, Sequences, FiniteSets, TLC

VARIABLES
    now,                      \* Date.now(), in milliseconds
    ticks,                    \* how many times the clock has advanced
    cacheExpirationInterval,  \* Cache._cacheExpirationInterval, in seconds
    store,                    \* Cache._store: a function from the keys present to CacheItems
    pending,                  \* CacheItems constructed and not (yet) added to a cache
    added,                    \* history: for each key, the item most recently passed to add
    ret,                      \* history: the cache operation performed last and what it returned
    variant,                  \* which of the two getFiles/download variants of extension.ts runs
    calls,                    \* the getFiles calls awaiting the response of the remote
    fetched,                  \* history: for each path, the last getFiles result got from the remote
    done,                     \* history: the getFiles call completed last
    opType,                   \* download: operation.type, "append" or "overwrite"
    pc,                       \* download: where the invocation stands
    fs,                       \* the file system: a function from the paths that exist to contents
    handles,                  \* the file handles that are open
    sep,                      \* the separator write that download does not await
    response,                 \* download: the entry the remote answered with
    buffer,                   \* download: the decoded content
    contents,                 \* deduplicate: the content read from the file
    lines,                    \* deduplicate: the lines of the file
    idx,                      \* deduplicate: how many lines the loop has handled
    found,                    \* deduplicate: the found flag
    part,                     \* deduplicate: how many writes of the current iteration are done
    written,                  \* deduplicate: the strings written to the new file, in order
    result,                   \* download: running, returned, or rejected with an error
    before,                   \* history: the file system when download was called
    workspace,                \* the window: workspace folders, active editor, repository
    cmd,                      \* the command handler: where the invocation stands
    pickedFile,               \* the command handler: file, the template the user picked
    quickPick,                \* the two quick picks: not shown, shown, answered or declined
    messages,                 \* the messages shown to the user, in order
    command                   \* the command: running, completed or rejected, and the error thrown

cacheVars == <<now, ticks, cacheExpirationInterval, store>>
cacheHist == <<pending, added, ret>>
fetchVars == <<variant, calls, fetched, done>>
dlVars == <<opType, pc, fs, handles, sep, response, buffer, result, before>>
dedupVars == <<contents, lines, idx, found, part, written>>
cmdVars == <<workspace, cmd, pickedFile, quickPick, messages, command>>
vars == <<cacheVars, cacheHist, fetchVars, dlVars, dedupVars, cmdVars>>

(***************************************************************************)
(* Bounds of the model.                                                    *)
(***************************************************************************)
MaxTicks == 2
MaxPending == 1

\* The amounts, in milliseconds, by which the clock advances in one step.
ClockSteps == {1, 1000}

\* The expiration intervals, in seconds, a cache is constructed with.
Intervals == {0, 1}

(***************************************************************************)
(* Values.                                                                 *)
(***************************************************************************)
\* A result that may be undefined.
Undefined == [defined |-> FALSE, value |-> <<>>]
Some(v) == [defined |-> TRUE, value |-> v]

\* The mutant of CacheKey: one key for every path.
CacheKeyWithoutPath(path) == <<"gitattributes/">>

\* 'gitattributes/' + path; a path is a sequence of path segments.
CacheKey(path) == <<"gitattributes/">> \o path

Paths == {<<>>, <<"sub">>}
Keys == {CacheKey(p) : p \in Paths}

\* GitattributesFile descriptors the cache operations are exercised with.
FileA == [label |-> <<"a">>, description |-> <<"a">>, url |-> <<"a">>]
FileB == [label |-> <<"b">>, description |-> <<"b">>, url |-> <<"b">>]
CacheValues == {<<FileA, FileB>>, <<FileB, FileA>>}

(***************************************************************************)
(* cache.ts                                                                *)
(***************************************************************************)
\* The mutant of NewCacheItem: the item is not stamped with the time.
NewCacheItemUnstamped(key, value, t) == [key |-> key, value |-> value, storeDate |-> 0]

\* new CacheItem(key, value): storeDate is the time of construction.
NewCacheItem(key, value, t) == [key |-> key, value |-> value, storeDate |-> t]

\* The mutant of IsExpired: an entry expires as soon as its age reaches the interval.
IsExpiredAtInterval(item, expirationInterval, t) ==
    item.storeDate + expirationInterval * 1000 <= t

\* CacheItem.isExpired(expirationInterval), evaluated at Date.now() = t.
IsExpired(item, expirationInterval, t) ==
    item.storeDate + expirationInterval * 1000 < t

\* The mutant of CacheAdd: an entry already under the key is kept, the first write wins.
CacheAddKeepingFirst(s, item) ==
    [k \in DOMAIN s \cup {item.key} |-> IF k \in DOMAIN s THEN s[k] ELSE item]

\* The mutant of CacheAdd: the store is replaced by one holding the new item only.
CacheAddReplacingStore(s, item) == [k \in {item.key} |-> item]

\* this._store is a plain object: a read of a key it does not hold goes to its
\* prototype.  '__proto__' names the prototype itself: Object.prototype at
\* first, and the item of the last add under '__proto__' afterwards, which a
\* store s holds under that key.
ProtoKey == <<"__proto__">>

\* The names of the members of Object.prototype.
ObjectPrototypeMembers ==
    {<<"constructor">>, <<"toString">>, <<"toLocaleString">>, <<"valueOf">>,
     <<"hasOwnProperty">>, <<"isPrototypeOf">>, <<"propertyIsEnumerable">>,
     <<"__proto__">>, <<"__defineGetter__">>, <<"__defineSetter__">>,
     <<"__lookupGetter__">>, <<"__lookupSetter__">>}

\* The names of the fields and of the members of a CacheItem.
CacheItemMembers ==
    {<<"_key">>, <<"_value">>, <<"storeDate">>,
     <<"key">>, <<"value">>, <<"isExpired">>, <<"constructor">>}

\* The property a read of key delivers: the accessors key and value of an
\* item that is the prototype read _key and _value of the store itself.
Accessed(s, key) ==
    IF key \in DOMAIN s \/ ProtoKey \notin DOMAIN s THEN key
    ELSE IF key = <<"key">> THEN <<"_key">>
    ELSE IF key = <<"value">> THEN <<"_value">>
    ELSE key

\* Whether this._store[key] is a property inherited from the prototype chain,
\* a value that is no CacheItem.
IsInherited(s, key) ==
    /\ Accessed(s, key) \notin DOMAIN s
    /\ \/ Accessed(s, key) \in ObjectPrototypeMembers
       \/ ProtoKey \in DOMAIN s /\ Accessed(s, key) \in CacheItemMembers

\* What add(item) throws, if anything.  The assignment this._store[item.key] =
\* item meets the accessor key or value of a CacheItem that is the prototype of
\* the store: it has no setter, and the assignment, in strict mode, throws.
CacheAddThrown(s, item) ==
    IF /\ ProtoKey \in DOMAIN s
       /\ item.key \in {<<"key">>, <<"value">>}
       /\ item.key \notin DOMAIN s
    THEN Some(<<"TypeError: Cannot set property ">> \o item.key
                  \o <<" of #<CacheItem> which has only a getter">>)
    ELSE Undefined

\* Cache.add(item): this._store[item.key] = item.  The store is as it was when
\* the assignment throws.
CacheAdd(s, item) ==
    IF CacheAddThrown(s, item).defined
    THEN s
    ELSE [k \in DOMAIN s \cup {item.key} |-> IF k = item.key THEN item ELSE s[k]]

\* An inherited property, as a value read from the store.
InheritedProperty == [defined |-> TRUE, value |-> <<"inherited property">>]

\* A lookup that throws: item.isExpired is called on a value that has no such
\* method.
IsExpiredNotAFunction ==
    [defined |-> FALSE, value |-> <<"TypeError: item.isExpired is not a function">>]

\* const item = this._store[key], as the lookups read it.
StoreLookup(s, key) ==
    IF Accessed(s, key) \in DOMAIN s THEN Some(s[Accessed(s, key)])
    ELSE IF IsInherited(s, key) THEN InheritedProperty
    ELSE Undefined

\* Cache.get(key), evaluated at Date.now() = t.
CacheGet(s, key, expirationInterval, t) ==
    IF IsInherited(s, key) THEN IsExpiredNotAFunction
    ELSE IF \/ ~StoreLookup(s, key).defined
            \/ IsExpired(StoreLookup(s, key).value, expirationInterval, t)
    THEN Undefined
    ELSE Some(StoreLookup(s, key).value.value)

\* Cache.getCacheItem(key), evaluated at Date.now() = t.
CacheGetCacheItem(s, key, expirationInterval, t) ==
    IF IsInherited(s, key) THEN IsExpiredNotAFunction
    ELSE IF \/ ~StoreLookup(s, key).defined
            \/ IsExpired(StoreLookup(s, key).value, expirationInterval, t)
    THEN Undefined
    ELSE StoreLookup(s, key)

\* The mutant of StoreAfterLookup: a lookup sweeps the entry it finds expired.
StoreAfterLookupEvicting(s, key, expirationInterval, t) ==
    IF key \in DOMAIN s /\ IsExpired(s[key], expirationInterval, t)
    THEN [k \in DOMAIN s \ {key} |-> s[k]]
    ELSE s

\* this._store after get(key) or getCacheItem(key): neither assigns to it.
StoreAfterLookup(s, key, expirationInterval, t) == s

(***************************************************************************)
(* Strings, as sequences of characters.                                    *)
(***************************************************************************)
\* '.gitattributes'
Suffix == <<".", "g", "i", "t", "a", "t", "t", "r", "i", "b", "u", "t", "e", "s">>

\* s.endsWith(suf)
EndsWith(s, suf) ==
    /\ Len(s) >= Len(suf)
    /\ SubSeq(s, Len(s) - Len(suf) + 1, Len(s)) = suf

\* The positions at which pat occurs in s.
Occurrences(s, pat) ==
    {i \in 1..(Len(s) - Len(pat) + 1) : SubSeq(s, i, i + Len(pat) - 1) = pat}

\* Whether the literal pattern pat matches somewhere in s: s.match(new RegExp(pat)).
Matches(s, pat) == Occurrences(s, pat) # {}

\* s.replace(/pat/, rep) for a literal pattern without the g flag: the first
\* (leftmost) occurrence is replaced, and s is returned as it is when there is none.
ReplaceFirst(s, pat, rep) ==
    IF Occurrences(s, pat) = {}
    THEN s
    ELSE LET i == CHOOSE j \in Occurrences(s, pat) :
                     \A k \in Occurrences(s, pat) : j <= k
         IN  SubSeq(s, 1, i - 1) \o rep \o SubSeq(s, i + Len(pat), Len(s))

(***************************************************************************)
(* extension.ts: getFiles                                                  *)
(***************************************************************************)
\* The mutant of IsTemplate: the bare '.gitattributes' file is not excluded.
IsTemplateKeepingRootFile(file) ==
    file.type = "file" /\ EndsWith(file.name, Suffix)

\* The filter of getFiles.
IsTemplate(file) ==
    file.type = "file" /\ file.name # Suffix /\ EndsWith(file.name, Suffix)

\* The map of getFiles.
ToDescriptor(file) ==
    [label |-> ReplaceFirst(file.name, Suffix, <<>>),
     description |-> file.path,
     url |-> file.path]

\* responseData.filter(...).map(...)
Files(responseData) ==
    LET kept == SelectSeq(responseData, IsTemplate)
    IN  [i \in 1..Len(kept) |-> ToDescriptor(kept[i])]

\* What a getFiles call gives its caller: a value or a thrown error.
Returned(v) == [ok |-> TRUE, error |-> <<>>, result |-> v]
Thrown(message) == [ok |-> FALSE, error |-> message, result |-> <<>>]

\* getFiles when cache.get gave a value: the first variant returns it, the second throws.
GetFilesOnHit(v, item) ==
    IF v = 1 THEN Returned(item) ELSE Thrown(<<"Variable item is type: undefined">>)

\* The error getFiles rethrows from its catch clause: the first variant rewraps an
\* error that has a code and a message, the second rethrows it as it is.
Rethrown(v, err) ==
    IF v = 1 /\ err.hasCode
    THEN Thrown(<<err.code, ": ">> \o err.message)
    ELSE Thrown(err.message)

\* The mutant of GetFilesOnResponse: a single-file response counts as an empty listing.
GetFilesOnResponseAcceptingFile(v, answer) ==
    CASE answer.kind = "error" -> Rethrown(v, answer.error)
      [] answer.kind = "file" -> Returned(<<>>)
      [] answer.kind = "listing" -> Returned(Files(answer.data))

\* getFiles after the response of the remote arrived.
GetFilesOnResponse(v, answer) ==
    CASE answer.kind = "error" -> Rethrown(v, answer.error)
      [] answer.kind = "file" ->
            Rethrown(v, [hasCode |-> FALSE, code |-> "", message |-> <<"Response sent wrong type.">>])
      [] answer.kind = "listing" -> Returned(Files(answer.data))

\* The entry under key when a call ends: none, an expired one, or a live one,
\* which a call that began with a miss finds when another call stored it since.
EntryState(s, key, expirationInterval, t) ==
    IF key \notin DOMAIN s THEN "none"
    ELSE IF IsExpired(s[key], expirationInterval, t) THEN "expired" ELSE "live"

\* A getFiles call that is not running.
IdleCall == [pc |-> "idle", path |-> <<>>]

NoResponse == [kind |-> "none", data |-> <<>>, error |-> <<>>]

NoDone ==
    [op |-> "none", path |-> <<>>, hit |-> FALSE, cached |-> Undefined,
     response |-> NoResponse, net |-> 0, wrote |-> FALSE, over |-> "none",
     outcome |-> Thrown(<<>>)]

\* The fetcher's state in a specification that does not run it.
FetcherUnused ==
    /\ variant = 1
    /\ calls = <<>>
    /\ fetched = <<>>
    /\ done = NoDone

(***************************************************************************)
(* extension.ts: deduplicate                                               *)
(*                                                                         *)
(* A file's content is a sequence of bytes and a string a sequence of      *)
(* characters.  An ASCII character and its byte are written as the         *)
(* character itself, another byte by its value ("0xFF"); in a string, a    *)
(* character outside ASCII is written as the bytes of its UTF-8 encoding,  *)
(* except the replacement character, written "U+FFFD".                     *)
(***************************************************************************)
LF == "\n"

\* '* text=auto', the text the regular expression '\\* text=auto' matches.
Marker == <<"*", " ", "t", "e", "x", "t", "=", "a", "u", "t", "o">>

\* '# Commented because this line appears before in the file.'
CommentLine ==
    <<"#", " ", "C", "o", "m", "m", "e", "n", "t", "e", "d", " ", "b", "e", "c", "a",
      "u", "s", "e", " ", "t", "h", "i", "s", " ", "l", "i", "n", "e", " ", "a", "p",
      "p", "e", "a", "r", "s", " ", "b", "e", "f", "o", "r", "e", " ", "i", "n", " ",
      "t", "h", "e", " ", "f", "i", "l", "e", ".">>

\* The character a byte is written as: the one of byte b is at position b + 1.
ByteChars ==
    <<"0x00", "0x01", "0x02", "0x03", "0x04", "0x05", "0x06", "0x07", "0x08", "0x09",
      "\n", "0x0B", "0x0C", "0x0D", "0x0E", "0x0F", "0x10", "0x11", "0x12", "0x13",
      "0x14", "0x15", "0x16", "0x17", "0x18", "0x19", "0x1A", "0x1B", "0x1C", "0x1D",
      "0x1E", "0x1F", " ", "!", "\"", "#", "$", "%", "&", "'", "(", ")", "*", "+", ",",
      "-", ".", "/", "0", "1", "2", "3", "4", "5", "6", "7", "8", "9", ":", ";", "<",
      "=", ">", "?", "@", "A", "B", "C", "D", "E", "F", "G", "H", "I", "J", "K", "L",
      "M", "N", "O", "P", "Q", "R", "S", "T", "U", "V", "W", "X", "Y", "Z", "[", "\\",
      "]", "^", "_", "0x60", "a", "b", "c", "d", "e", "f", "g", "h", "i", "j", "k", "l",
      "m", "n", "o", "p", "q", "r", "s", "t", "u", "v", "w", "x", "y", "z", "{", "|",
      "}", "~", "0x7F", "0x80", "0x81", "0x82", "0x83", "0x84", "0x85", "0x86", "0x87",
      "0x88", "0x89", "0x8A", "0x8B", "0x8C", "0x8D", "0x8E", "0x8F", "0x90", "0x91",
      "0x92", "0x93", "0x94", "0x95", "0x96", "0x97", "0x98", "0x99", "0x9A", "0x9B",
      "0x9C", "0x9D", "0x9E", "0x9F", "0xA0", "0xA1", "0xA2", "0xA3", "0xA4", "0xA5",
      "0xA6", "0xA7", "0xA8", "0xA9", "0xAA", "0xAB", "0xAC", "0xAD", "0xAE", "0xAF",
      "0xB0", "0xB1", "0xB2", "0xB3", "0xB4", "0xB5", "0xB6", "0xB7", "0xB8", "0xB9",
      "0xBA", "0xBB", "0xBC", "0xBD", "0xBE", "0xBF", "0xC0", "0xC1", "0xC2", "0xC3",
      "0xC4", "0xC5", "0xC6", "0xC7", "0xC8", "0xC9", "0xCA", "0xCB", "0xCC", "0xCD",
      "0xCE", "0xCF", "0xD0", "0xD1", "0xD2", "0xD3", "0xD4", "0xD5", "0xD6", "0xD7",
      "0xD8", "0xD9", "0xDA", "0xDB", "0xDC", "0xDD", "0xDE", "0xDF", "0xE0", "0xE1",
      "0xE2", "0xE3", "0xE4", "0xE5", "0xE6", "0xE7", "0xE8", "0xE9", "0xEA", "0xEB",
      "0xEC", "0xED", "0xEE", "0xEF", "0xF0", "0xF1", "0xF2", "0xF3", "0xF4", "0xF5",
      "0xF6", "0xF7", "0xF8", "0xF9", "0xFA", "0xFB", "0xFC", "0xFD", "0xFE", "0xFF">>

\* The value of every byte, by the character the byte is written as.
ByteValues ==
    [c \in {ByteChars[i] : i \in 1..Len(ByteChars)} |->
        (CHOOSE i \in 1..Len(ByteChars) : ByteChars[i] = c) - 1]

\* The value of the byte written as the character c.
ByteValue(c) == ByteValues[c]

\* Whether c is an ASCII character.
IsAscii(c) == c \in DOMAIN ByteValues /\ ByteValue(c) <= 127

\* The UTF-8 encoding of the replacement character U+FFFD.
ReplacementBytes == <<"0xEF", "0xBF", "0xBD">>

\* The character a complete, valid UTF-8 sequence decodes to.
Character(sequence) ==
    IF sequence = ReplacementBytes THEN <<"U+FFFD">> ELSE sequence

\* The UTF-8 decoder, from the byte at position i on: seen holds the bytes of
\* the sequence under way, needed is the number of continuation bytes its first
\* byte announces, and lower..upper is the range the next byte must be in.  A
\* first byte that starts no sequence, a sequence broken off by a byte outside
\* the range and a sequence cut by the end of the input each give one U+FFFD;
\* the byte that breaks a sequence off is decoded again, as a first byte.  A run
\* of ASCII bytes, each a character of its own, is decoded in one go.
RECURSIVE Utf8Decode(_, _, _, _, _, _)
Utf8Decode(bytes, i, seen, needed, lower, upper) ==
    IF i > Len(bytes)
    THEN IF needed = 0 THEN <<>> ELSE <<"U+FFFD">>
    ELSE LET b == ByteValue(bytes[i])
             rest == Utf8Decode(bytes, i + 1, <<>>, 0, 128, 191)
             ascii == CHOOSE j \in i..Len(bytes) :
                          /\ \A k \in i..j : ByteValue(bytes[k]) <= 127
                          /\ j < Len(bytes) => ByteValue(bytes[j + 1]) > 127
         IN  IF needed = 0
             THEN IF b <= 127
                  THEN SubSeq(bytes, i, ascii)
                           \o Utf8Decode(bytes, ascii + 1, <<>>, 0, 128, 191)
                  ELSE IF b >= 194 /\ b <= 223
                  THEN Utf8Decode(bytes, i + 1, <<bytes[i]>>, 1, 128, 191)
                  ELSE IF b >= 224 /\ b <= 239
                  THEN Utf8Decode(bytes, i + 1, <<bytes[i]>>, 2,
                                  IF b = 224 THEN 160 ELSE 128,
                                  IF b = 237 THEN 159 ELSE 191)
                  ELSE IF b >= 240 /\ b <= 244
                  THEN Utf8Decode(bytes, i + 1, <<bytes[i]>>, 3,
                                  IF b = 240 THEN 144 ELSE 128,
                                  IF b = 244 THEN 143 ELSE 191)
                  ELSE <<"U+FFFD">> \o rest
             ELSE IF b < lower \/ b > upper
                  THEN <<"U+FFFD">> \o Utf8Decode(bytes, i, <<>>, 0, 128, 191)
                  ELSE IF Len(seen) = needed
                  THEN Character(Append(seen, bytes[i])) \o rest
                  ELSE Utf8Decode(bytes, i + 1, Append(seen, bytes[i]), needed, 128, 191)

\* buffer.toString(): UTF-8 decoding, which replaces every invalid sequence of
\* bytes by U+FFFD.
BufferToString(bytes) == Utf8Decode(bytes, 1, <<>>, 0, 128, 191)

\* str.split('\n')
RECURSIVE Split(_)
Split(str) ==
    IF \A i \in 1..Len(str) : str[i] # LF
    THEN <<str>>
    ELSE LET i == CHOOSE j \in 1..Len(str) :
                     str[j] = LF /\ \A k \in 1..(j - 1) : str[k] # LF
         IN  <<SubSeq(str, 1, i - 1)>> \o Split(SubSeq(str, i + 1, Len(str)))

\* The concatenation of the strings of a sequence.
RECURSIVE Flatten(_)
Flatten(chunks) ==
    IF chunks = <<>> THEN <<>> ELSE Head(chunks) \o Flatten(Tail(chunks))

\* The bytes a write of the string str puts into a file: its UTF-8 encoding.
RECURSIVE Utf8(_)
Utf8(str) ==
    IF \A i \in 1..Len(str) : str[i] # "U+FFFD"
    THEN str
    ELSE LET i == CHOOSE j \in 1..Len(str) :
                     str[j] = "U+FFFD" /\ \A k \in 1..(j - 1) : str[k] # "U+FFFD"
         IN  SubSeq(str, 1, i - 1) \o ReplacementBytes
                 \o Utf8(SubSeq(str, i + 1, Len(str)))

\* The mutant of DedupIteration: the found flag is never set.
DedupIterationNeverFound(line, wasFound) ==
    IF ~Matches(line, Marker)
    THEN [found |-> wasFound, writes |-> <<line \o <<LF>>>>]
    ELSE IF ~wasFound
         THEN [found |-> FALSE, writes |-> <<line \o <<LF>>>>]
         ELSE [found |-> wasFound,
               writes |-> <<CommentLine \o <<LF>>, <<"#", " ">> \o line \o <<LF>>>>]

\* One iteration of the loop of deduplicate on line, with the flag found as it
\* is before it: the flag after it and the strings it writes to the new file.
DedupIteration(line, wasFound) ==
    IF ~Matches(line, Marker)
    THEN [found |-> wasFound, writes |-> <<line \o <<LF>>>>]
    ELSE IF ~wasFound
         THEN [found |-> TRUE, writes |-> <<line \o <<LF>>>>]
         ELSE [found |-> wasFound,
               writes |-> <<CommentLine \o <<LF>>, <<"#", " ">> \o line \o <<LF>>>>]

\* The strings the loop of deduplicate writes for the lines ls from position i
\* on, the flag found being wasFound before them.
RECURSIVE DedupWrites(_, _, _)
DedupWrites(ls, i, wasFound) ==
    IF i > Len(ls)
    THEN <<>>
    ELSE LET it == DedupIteration(ls[i], wasFound)
         IN  it.writes \o DedupWrites(ls, i + 1, it.found)

\* The content of the new file deduplicate produces from the content bytes.
Deduplicate(bytes) ==
    Utf8(Flatten(DedupWrites(Split(BufferToString(bytes)), 1, FALSE)))

(***************************************************************************)
(* extension.ts: download                                                  *)
(***************************************************************************)
\* The base64 alphabet: the character of value v is at position v + 1.
Base64Alphabet ==
    <<"A", "B", "C", "D", "E", "F", "G", "H", "I", "J", "K", "L", "M", "N", "O", "P",
      "Q", "R", "S", "T", "U", "V", "W", "X", "Y", "Z", "a", "b", "c", "d", "e", "f",
      "g", "h", "i", "j", "k", "l", "m", "n", "o", "p", "q", "r", "s", "t", "u", "v",
      "w", "x", "y", "z", "0", "1", "2", "3", "4", "5", "6", "7", "8", "9", "+", "/">>

\* The value of a base64 character, of either alphabet, and -1 for another character.
Base64Value(c) ==
    IF \E i \in 1..Len(Base64Alphabet) : Base64Alphabet[i] = c
    THEN (CHOOSE i \in 1..Len(Base64Alphabet) : Base64Alphabet[i] = c) - 1
    ELSE IF c = "-" THEN 62 ELSE IF c = "_" THEN 63 ELSE -1

IsBase64Char(c) == Base64Value(c) >= 0

\* The code point a UTF-8 sequence encodes.
CodePoint(sequence) ==
    LET v(i) == ByteValue(sequence[i])
    IN  CASE Len(sequence) = 1 -> v(1)
          [] Len(sequence) = 2 -> (v(1) - 192) * 64 + (v(2) - 128)
          [] Len(sequence) = 3 -> (v(1) - 224) * 4096 + (v(2) - 128) * 64 + (v(3) - 128)
          [] Len(sequence) = 4 ->
                (v(1) - 240) * 262144 + (v(2) - 128) * 4096 + (v(3) - 128) * 64
                    + (v(4) - 128)

\* The UTF-16 code units of a code point: one, or a surrogate pair.
CodeUnits(cp) ==
    IF cp < 65536
    THEN <<cp>>
    ELSE <<55296 + ((cp - 65536) \div 1024), 56320 + ((cp - 65536) % 1024)>>

\* The low 8 bits of every UTF-16 code unit of the string str from position i
\* on, each as the character of that code: what the base64 decoder looks at.
RECURSIVE LowBytes(_, _)
LowBytes(str, i) ==
    IF i > Len(str)
    THEN <<>>
    ELSE IF str[i] = "U+FFFD"
    THEN <<"0xFD">> \o LowBytes(str, i + 1)
    ELSE IF ByteValue(str[i]) <= 127
    THEN LET ascii == CHOOSE j \in i..Len(str) :
                          /\ \A k \in i..j : IsAscii(str[k])
                          /\ j < Len(str) => ~IsAscii(str[j + 1])
         IN  SubSeq(str, i, ascii) \o LowBytes(str, ascii + 1)
    ELSE LET b == ByteValue(str[i])
             n == IF b <= 223 THEN 2 ELSE IF b <= 239 THEN 3 ELSE 4
             units == CodeUnits(CodePoint(SubSeq(str, i, i + n - 1)))
         IN  [k \in 1..Len(units) |-> ByteChars[(units[k] % 256) + 1]]
                 \o LowBytes(str, i + n)

\* The part of content before its first '=', all of it when it has none.
BeforePadding(content) ==
    IF \A i \in 1..Len(content) : content[i] # "="
    THEN content
    ELSE SubSeq(content, 1, (CHOOSE i \in 1..Len(content) :
                                 content[i] = "=" /\ \A k \in 1..(i - 1) : content[k] # "=") - 1)

\* Buffer.from(content, 'base64'): every UTF-16 code unit of content counts as
\* the character of its low 8 bits; decoding stops at the first '=', the
\* characters outside the alphabet before it (line breaks) are skipped, every
\* four characters give three bytes, and the bits left over at the end are
\* dropped.
Base64Decode(content) ==
    LET chars == SelectSeq(BeforePadding(LowBytes(content, 1)), IsBase64Char)
        byte(k) ==
            LET q == (8 * k) \div 6
                r == (8 * k) % 6
                both == Base64Value(chars[q + 1]) * 64 + Base64Value(chars[q + 2])
            IN  (both \div (2 ^ (4 - r))) % 256
    IN  [k \in 1..((Len(chars) * 6) \div 8) |-> ByteChars[byte(k - 1) + 1]]

\* The mutant of Decode: the content is written as it came, never decoded.
DecodeAsRaw(content, encoding) == Utf8(content)

\* The buffer download writes for a response's content and encoding.
Decode(content, encoding) ==
    IF encoding = "base64" THEN Base64Decode(content) ELSE Utf8(content)

\* The mutant of IsUsableFile: the type of the entry is not looked at.
IsUsableFileOfAnyType(entry) ==
    entry.content.defined /\ entry.content.value # <<>>

\* The validation of download: response.type === 'file' and response.content is
\* truthy (neither undefined nor the empty string).
IsUsableFile(entry) ==
    /\ entry.type = "file"
    /\ entry.content.defined
    /\ entry.content.value # <<>>

\* fs.open(path, flags) on the files fs: 'w' creates or truncates, 'a' creates
\* the file when it is missing and leaves its content otherwise.
FsOpen(f, path, flags) ==
    [q \in DOMAIN f \cup {path} |->
        IF q = path
        THEN IF flags = "w" \/ path \notin DOMAIN f THEN <<>> ELSE f[path]
        ELSE f[q]]

\* A write through a file handle of path: the bytes go to the end of the file.
FsAppend(f, path, bytes) == [f EXCEPT ![path] = f[path] \o bytes]

\* The mutant of FsUnlink: nothing is removed.
FsUnlinkNothing(f, path) == f

\* fs.unlink(path)
FsUnlink(f, path) == [q \in DOMAIN f \ {path} |-> f[q]]

\* fs.rename(oldPath, newPath)
FsRename(f, oldPath, newPath) ==
    [q \in (DOMAIN f \ {oldPath}) \cup {newPath} |->
        IF q = newPath THEN f[oldPath] ELSE f[q]]

\* The two paths of a download: operation.path and operation.path + '.new'.
TargetPath == "target"
NewPath == "target.new"

\* operation.type === OperationType.overwrite ? 'w' : 'a'
Flags(type) == IF type = "overwrite" THEN "w" ELSE "a"

Running == [status |-> "running", error |-> ""]

\* The state of download in a specification that does not run it.
DownloadUnused ==
    /\ opType = "overwrite"
    /\ pc = "idle"
    /\ fs = <<>>
    /\ handles = {}
    /\ sep = "none"
    /\ response = [kind |-> "error", type |-> "", content |-> Undefined, encoding |-> ""]
    /\ buffer = <<>>
    /\ contents = <<>>
    /\ lines = <<>>
    /\ idx = 0
    /\ found = FALSE
    /\ part = 0
    /\ written = <<>>
    /\ result = Running
    /\ before = <<>>

(***************************************************************************)
(* extension.ts: the handler of the command 'addgitattributes'             *)
(***************************************************************************)
\* An error value: whether it is a CancellationError, its name and its message.
NoError == [cancel |-> FALSE, name |-> "", message |-> <<>>]
\* new CancellationError(): an Error subclass that sets neither name nor message.
Cancellation == [cancel |-> TRUE, name |-> "Error", message |-> <<>>]
\* new Error(message), or an error another call rejected with.
ErrorOf(message) == [cancel |-> FALSE, name |-> "Error", message |-> message]
\* The TypeError of reading the property of this name of undefined.
PropertyOfUndefined(property) ==
    [cancel |-> FALSE, name |-> "TypeError",
     message |-> <<"Cannot read properties of undefined (reading '", property, "')">>]

\* '' + error: the name, then ': ' and the message when there is one.
ErrorString(error) ==
    IF error.message = <<>> THEN <<error.name>> ELSE <<error.name, ": ">> \o error.message

\* What the catch clause of the handler passes to showErrorMessage: the first
\* variant the string '' + reason, the second the error object reason itself.
ReasonShown(v, reason) ==
    IF v = 1 THEN ErrorString(reason) ELSE <<"[object ", reason.name, "]">>

ErrorMessage(text) == [level |-> "error", text |-> text]
InformationMessage(text) == [level |-> "information", text |-> text]

MsgNoWorkspace == <<"No workspace open. Please open a workspace to use this command.">>
MsgNoRepository == <<"vscode-gitattributes failed to initialize with error:">>
MsgNoEditor ==
    <<"No text editor open. Please open a file relative to the workspace to use this command.">>
MsgNoActiveEditor ==
    <<"No active text editor open. Please open a file relative to the workspace to use this command.">>
MsgNoFolder == <<"Workspace folder not found. Please open a workspace to use this command.">>
MsgUndefinedOperation == <<"Operation returned undefined">>
\* The two template literals of showSuccessMessage: each is continued on the
\* next line of the source, whose indentation of 12 spaces is part of the text.
MsgCreated ==
    <<"Created .gitattributes file in the project root based on             ">>
MsgAppended(description) ==
    <<"Appended ">> \o description
        \o <<" to the existing             .gitattributes in the project root">>

\* showSuccessMessage(operation)
SuccessMessage(type, description) ==
    IF type = "append"
    THEN InformationMessage(MsgAppended(description))
    ELSE InformationMessage(MsgCreated \o description)

\* The messages after the catch clause of the handler has run for reason: a
\* CancellationError shows nothing, another error is shown.
MessagesAfterCatch(v, reason, shown) ==
    IF reason.cancel THEN shown ELSE Append(shown, ErrorMessage(ReasonShown(v, reason)))

\* The collation localeCompare compares by.  The code passes no locale, so the
\* collation is that of the locale of the process: the root collation, which
\* en-US has, or a tailoring of it, here the one of sv-SE.  The characters are
\* U+0000 to U+024F and U+FFFD; the collation of a label with another
\* character is not defined here.  An element holds three weights, of the
\* first level (the letter or sign), the second (its accent) and the third (its
\* case or variant); a weight of 0 is ignored at its level.  A control
\* character has no element, a letter with an accent or a ligature may have
\* several, and the two cases of a letter differ at the third level only, the
\* lower case first.
\*   root: the elements of the character of code point cp, at position cp + 1;
\*   replacement: the elements of U+FFFD;
\*   swedish: the pairs of a code point and the elements the Swedish tailoring
\*     gives it in place of those of the root: there å, ä and ö are letters
\*     after z, æ and ø are variants of ä and ö, and ü is a variant of y.
CollationElements ==
    [root |->
        <<<<>>, <<>>, <<>>, <<>>, <<>>, <<>>, <<>>, <<>>, <<>>, <<<<1, 1, 1>>>>,
          <<<<2, 1, 1>>>>, <<<<3, 1, 1>>>>, <<<<4, 1, 1>>>>, <<<<5, 1, 1>>>>, <<>>,
          <<>>, <<>>, <<>>, <<>>, <<>>, <<>>, <<>>, <<>>, <<>>, <<>>, <<>>, <<>>, <<>>,
          <<>>, <<>>, <<>>, <<>>, <<<<7, 1, 1>>>>, <<<<13, 1, 1>>>>, <<<<20, 1, 1>>>>,
          <<<<36, 1, 1>>>>, <<<<61, 1, 1>>>>, <<<<37, 1, 1>>>>, <<<<35, 1, 1>>>>,
          <<<<19, 1, 1>>>>, <<<<23, 1, 1>>>>, <<<<24, 1, 1>>>>, <<<<32, 1, 1>>>>,
          <<<<47, 1, 1>>>>, <<<<10, 1, 1>>>>, <<<<9, 1, 1>>>>, <<<<17, 1, 1>>>>,
          <<<<33, 1, 1>>>>, <<<<64, 1, 1>>>>, <<<<65, 1, 1>>>>, <<<<66, 1, 1>>>>,
          <<<<67, 1, 1>>>>, <<<<68, 1, 1>>>>, <<<<69, 1, 1>>>>, <<<<70, 1, 1>>>>,
          <<<<71, 1, 1>>>>, <<<<72, 1, 1>>>>, <<<<73, 1, 1>>>>, <<<<12, 1, 1>>>>,
          <<<<11, 1, 1>>>>, <<<<51, 1, 1>>>>, <<<<52, 1, 1>>>>, <<<<53, 1, 1>>>>,
          <<<<15, 1, 1>>>>, <<<<31, 1, 1>>>>, <<<<74, 1, 7>>>>, <<<<76, 1, 7>>>>,
          <<<<80, 1, 7>>>>, <<<<83, 1, 7>>>>, <<<<88, 1, 7>>>>, <<<<93, 1, 7>>>>,
          <<<<95, 1, 7>>>>, <<<<100, 1, 7>>>>, <<<<102, 1, 7>>>>, <<<<106, 1, 7>>>>,
          <<<<109, 1, 7>>>>, <<<<111, 1, 7>>>>, <<<<115, 1, 7>>>>, <<<<116, 1, 7>>>>,
          <<<<121, 1, 7>>>>, <<<<125, 1, 7>>>>, <<<<127, 1, 7>>>>, <<<<130, 1, 7>>>>,
          <<<<133, 1, 7>>>>, <<<<137, 1, 7>>>>, <<<<144, 1, 7>>>>, <<<<148, 1, 7>>>>,
          <<<<151, 1, 10>>>>, <<<<152, 1, 7>>>>, <<<<153, 1, 7>>>>, <<<<157, 1, 7>>>>,
          <<<<25, 1, 1>>>>, <<<<34, 1, 1>>>>, <<<<26, 1, 1>>>>, <<<<40, 1, 1>>>>,
          <<<<8, 1, 1>>>>, <<<<38, 1, 1>>>>, <<<<74, 1, 1>>>>, <<<<76, 1, 1>>>>,
          <<<<80, 1, 1>>>>, <<<<83, 1, 1>>>>, <<<<88, 1, 1>>>>, <<<<93, 1, 1>>>>,
          <<<<95, 1, 1>>>>, <<<<100, 1, 1>>>>, <<<<102, 1, 1>>>>, <<<<106, 1, 1>>>>,
          <<<<109, 1, 1>>>>, <<<<111, 1, 1>>>>, <<<<115, 1, 1>>>>, <<<<116, 1, 1>>>>,
          <<<<121, 1, 1>>>>, <<<<125, 1, 1>>>>, <<<<127, 1, 1>>>>, <<<<130, 1, 1>>>>,
          <<<<133, 1, 1>>>>, <<<<137, 1, 1>>>>, <<<<144, 1, 1>>>>, <<<<148, 1, 1>>>>,
          <<<<151, 1, 1>>>>, <<<<152, 1, 1>>>>, <<<<153, 1, 1>>>>, <<<<157, 1, 1>>>>,
          <<<<27, 1, 1>>>>, <<<<55, 1, 1>>>>, <<<<28, 1, 1>>>>, <<<<57, 1, 1>>>>, <<>>,
          <<>>, <<>>, <<>>, <<>>, <<>>, <<<<6, 1, 1>>>>, <<>>, <<>>, <<>>, <<>>, <<>>,
          <<>>, <<>>, <<>>, <<>>, <<>>, <<>>, <<>>, <<>>, <<>>, <<>>, <<>>, <<>>, <<>>,
          <<>>, <<>>, <<>>, <<>>, <<>>, <<>>, <<>>, <<>>, <<<<7, 1, 13>>>>,
          <<<<14, 1, 1>>>>, <<<<60, 1, 1>>>>, <<<<62, 1, 1>>>>, <<<<59, 1, 1>>>>,
          <<<<63, 1, 1>>>>, <<<<56, 1, 1>>>>, <<<<29, 1, 1>>>>, <<<<42, 1, 1>>>>,
          <<<<45, 1, 1>>>>, <<<<74, 1, 14>>>>, <<<<21, 1, 1>>>>, <<<<54, 1, 1>>>>,
          <<>>, <<<<46, 1, 1>>>>, <<<<41, 1, 1>>>>, <<<<44, 1, 1>>>>, <<<<48, 1, 1>>>>,
          <<<<66, 1, 12>>>>, <<<<67, 1, 12>>>>, <<<<39, 1, 1>>>>, <<<<179, 1, 3>>>>,
          <<<<30, 1, 1>>>>, <<<<18, 1, 1>>>>, <<<<43, 1, 1>>>>, <<<<65, 1, 12>>>>,
          <<<<121, 1, 14>>>>, <<<<22, 1, 1>>>>,
          <<<<65, 1, 15>>, <<58, 1, 10>>, <<68, 1, 15>>>>,
          <<<<65, 1, 15>>, <<58, 1, 10>>, <<66, 1, 15>>>>,
          <<<<67, 1, 15>>, <<58, 1, 10>>, <<68, 1, 15>>>>, <<<<16, 1, 1>>>>,
          <<<<74, 1, 7>>, <<0, 9, 1>>>>, <<<<74, 1, 7>>, <<0, 8, 1>>>>,
          <<<<74, 1, 7>>, <<0, 11, 1>>>>, <<<<74, 1, 7>>, <<0, 16, 1>>>>,
          <<<<74, 1, 7>>, <<0, 14, 1>>>>, <<<<74, 1, 7>>, <<0, 13, 1>>>>,
          <<<<74, 6, 10>>, <<88, 1, 11>>>>, <<<<80, 1, 7>>, <<0, 19, 1>>>>,
          <<<<88, 1, 7>>, <<0, 9, 1>>>>, <<<<88, 1, 7>>, <<0, 8, 1>>>>,
          <<<<88, 1, 7>>, <<0, 11, 1>>>>, <<<<88, 1, 7>>, <<0, 14, 1>>>>,
          <<<<102, 1, 7>>, <<0, 9, 1>>>>, <<<<102, 1, 7>>, <<0, 8, 1>>>>,
          <<<<102, 1, 7>>, <<0, 11, 1>>>>, <<<<102, 1, 7>>, <<0, 14, 1>>>>,
          <<<<83, 6, 10>>>>, <<<<116, 1, 7>>, <<0, 16, 1>>>>,
          <<<<121, 1, 7>>, <<0, 9, 1>>>>, <<<<121, 1, 7>>, <<0, 8, 1>>>>,
          <<<<121, 1, 7>>, <<0, 11, 1>>>>, <<<<121, 1, 7>>, <<0, 16, 1>>>>,
          <<<<121, 1, 7>>, <<0, 14, 1>>>>, <<<<50, 1, 1>>>>,
          <<<<121, 1, 7>>, <<0, 18, 1>>>>, <<<<144, 1, 7>>, <<0, 9, 1>>>>,
          <<<<144, 1, 7>>, <<0, 8, 1>>>>, <<<<144, 1, 7>>, <<0, 11, 1>>>>,
          <<<<144, 1, 7>>, <<0, 14, 1>>>>, <<<<153, 1, 7>>, <<0, 8, 1>>>>,
          <<<<164, 1, 10>>>>, <<<<133, 6, 1>>, <<133, 1, 4>>>>,
          <<<<74, 1, 1>>, <<0, 9, 1>>>>, <<<<74, 1, 1>>, <<0, 8, 1>>>>,
          <<<<74, 1, 1>>, <<0, 11, 1>>>>, <<<<74, 1, 1>>, <<0, 16, 1>>>>,
          <<<<74, 1, 1>>, <<0, 14, 1>>>>, <<<<74, 1, 1>>, <<0, 13, 1>>>>,
          <<<<74, 6, 1>>, <<88, 1, 4>>>>, <<<<80, 1, 1>>, <<0, 19, 1>>>>,
          <<<<88, 1, 1>>, <<0, 9, 1>>>>, <<<<88, 1, 1>>, <<0, 8, 1>>>>,
          <<<<88, 1, 1>>, <<0, 11, 1>>>>, <<<<88, 1, 1>>, <<0, 14, 1>>>>,
          <<<<102, 1, 1>>, <<0, 9, 1>>>>, <<<<102, 1, 1>>, <<0, 8, 1>>>>,
          <<<<102, 1, 1>>, <<0, 11, 1>>>>, <<<<102, 1, 1>>, <<0, 14, 1>>>>,
          <<<<83, 6, 1>>>>, <<<<116, 1, 1>>, <<0, 16, 1>>>>,
          <<<<121, 1, 1>>, <<0, 9, 1>>>>, <<<<121, 1, 1>>, <<0, 8, 1>>>>,
          <<<<121, 1, 1>>, <<0, 11, 1>>>>, <<<<121, 1, 1>>, <<0, 16, 1>>>>,
          <<<<121, 1, 1>>, <<0, 14, 1>>>>, <<<<49, 1, 1>>>>,
          <<<<121, 1, 1>>, <<0, 18, 1>>>>, <<<<144, 1, 1>>, <<0, 9, 1>>>>,
          <<<<144, 1, 1>>, <<0, 8, 1>>>>, <<<<144, 1, 1>>, <<0, 11, 1>>>>,
          <<<<144, 1, 1>>, <<0, 14, 1>>>>, <<<<153, 1, 1>>, <<0, 8, 1>>>>,
          <<<<164, 1, 1>>>>, <<<<153, 1, 1>>, <<0, 14, 1>>>>,
          <<<<74, 1, 7>>, <<0, 21, 1>>>>, <<<<74, 1, 1>>, <<0, 21, 1>>>>,
          <<<<74, 1, 7>>, <<0, 10, 1>>>>, <<<<74, 1, 1>>, <<0, 10, 1>>>>,
          <<<<74, 1, 7>>, <<0, 20, 1>>>>, <<<<74, 1, 1>>, <<0, 20, 1>>>>,
          <<<<80, 1, 7>>, <<0, 8, 1>>>>, <<<<80, 1, 1>>, <<0, 8, 1>>>>,
          <<<<80, 1, 7>>, <<0, 11, 1>>>>, <<<<80, 1, 1>>, <<0, 11, 1>>>>,
          <<<<80, 1, 7>>, <<0, 17, 1>>>>, <<<<80, 1, 1>>, <<0, 17, 1>>>>,
          <<<<80, 1, 7>>, <<0, 12, 1>>>>, <<<<80, 1, 1>>, <<0, 12, 1>>>>,
          <<<<83, 1, 7>>, <<0, 12, 1>>>>, <<<<83, 1, 1>>, <<0, 12, 1>>>>,
          <<<<83, 1, 7>>, <<0, 22, 1>>>>, <<<<83, 1, 1>>, <<0, 22, 1>>>>,
          <<<<88, 1, 7>>, <<0, 21, 1>>>>, <<<<88, 1, 1>>, <<0, 21, 1>>>>,
          <<<<88, 1, 7>>, <<0, 10, 1>>>>, <<<<88, 1, 1>>, <<0, 10, 1>>>>,
          <<<<88, 1, 7>>, <<0, 17, 1>>>>, <<<<88, 1, 1>>, <<0, 17, 1>>>>,
          <<<<88, 1, 7>>, <<0, 20, 1>>>>, <<<<88, 1, 1>>, <<0, 20, 1>>>>,
          <<<<88, 1, 7>>, <<0, 12, 1>>>>, <<<<88, 1, 1>>, <<0, 12, 1>>>>,
          <<<<95, 1, 7>>, <<0, 11, 1>>>>, <<<<95, 1, 1>>, <<0, 11, 1>>>>,
          <<<<95, 1, 7>>, <<0, 10, 1>>>>, <<<<95, 1, 1>>, <<0, 10, 1>>>>,
          <<<<95, 1, 7>>, <<0, 17, 1>>>>, <<<<95, 1, 1>>, <<0, 17, 1>>>>,
          <<<<95, 1, 7>>, <<0, 19, 1>>>>, <<<<95, 1, 1>>, <<0, 19, 1>>>>,
          <<<<100, 1, 7>>, <<0, 11, 1>>>>, <<<<100, 1, 1>>, <<0, 11, 1>>>>,
          <<<<100, 1, 7>>, <<0, 22, 1>>>>, <<<<100, 1, 1>>, <<0, 22, 1>>>>,
          <<<<102, 1, 7>>, <<0, 16, 1>>>>, <<<<102, 1, 1>>, <<0, 16, 1>>>>,
          <<<<102, 1, 7>>, <<0, 21, 1>>>>, <<<<102, 1, 1>>, <<0, 21, 1>>>>,
          <<<<102, 1, 7>>, <<0, 10, 1>>>>, <<<<102, 1, 1>>, <<0, 10, 1>>>>,
          <<<<102, 1, 7>>, <<0, 20, 1>>>>, <<<<102, 1, 1>>, <<0, 20, 1>>>>,
          <<<<102, 1, 7>>, <<0, 17, 1>>>>, <<<<103, 1, 1>>>>,
          <<<<102, 1, 11>>, <<106, 1, 11>>>>, <<<<102, 1, 4>>, <<106, 1, 4>>>>,
          <<<<106, 1, 7>>, <<0, 11, 1>>>>, <<<<106, 1, 1>>, <<0, 11, 1>>>>,
          <<<<109, 1, 7>>, <<0, 19, 1>>>>, <<<<109, 1, 1>>, <<0, 19, 1>>>>,
          <<<<129, 1, 1>>>>, <<<<111, 1, 7>>, <<0, 8, 1>>>>,
          <<<<111, 1, 1>>, <<0, 8, 1>>>>, <<<<111, 1, 7>>, <<0, 19, 1>>>>,
          <<<<111, 1, 1>>, <<0, 19, 1>>>>, <<<<111, 1, 7>>, <<0, 12, 1>>>>,
          <<<<111, 1, 1>>, <<0, 12, 1>>>>, <<<<111, 1, 7>>, <<0, 27, 1>>>>,
          <<<<111, 1, 1>>, <<0, 27, 1>>>>, <<<<111, 1, 7>>, <<0, 22, 1>>>>,
          <<<<111, 1, 1>>, <<0, 22, 1>>>>, <<<<116, 1, 7>>, <<0, 8, 1>>>>,
          <<<<116, 1, 1>>, <<0, 8, 1>>>>, <<<<116, 1, 7>>, <<0, 19, 1>>>>,
          <<<<116, 1, 1>>, <<0, 19, 1>>>>, <<<<116, 1, 7>>, <<0, 12, 1>>>>,
          <<<<116, 1, 1>>, <<0, 12, 1>>>>, <<<<171, 1, 10>>, <<116, 1, 4>>>>,
          <<<<120, 1, 9>>>>, <<<<120, 1, 1>>>>, <<<<121, 1, 7>>, <<0, 21, 1>>>>,
          <<<<121, 1, 1>>, <<0, 21, 1>>>>, <<<<121, 1, 7>>, <<0, 10, 1>>>>,
          <<<<121, 1, 1>>, <<0, 10, 1>>>>, <<<<121, 1, 7>>, <<0, 15, 1>>>>,
          <<<<121, 1, 1>>, <<0, 15, 1>>>>, <<<<121, 6, 10>>, <<88, 1, 11>>>>,
          <<<<121, 6, 1>>, <<88, 1, 4>>>>, <<<<130, 1, 7>>, <<0, 8, 1>>>>,
          <<<<130, 1, 1>>, <<0, 8, 1>>>>, <<<<130, 1, 7>>, <<0, 19, 1>>>>,
          <<<<130, 1, 1>>, <<0, 19, 1>>>>, <<<<130, 1, 7>>, <<0, 12, 1>>>>,
          <<<<130, 1, 1>>, <<0, 12, 1>>>>, <<<<133, 1, 7>>, <<0, 8, 1>>>>,
          <<<<133, 1, 1>>, <<0, 8, 1>>>>, <<<<133, 1, 7>>, <<0, 11, 1>>>>,
          <<<<133, 1, 1>>, <<0, 11, 1>>>>, <<<<133, 1, 7>>, <<0, 19, 1>>>>,
          <<<<133, 1, 1>>, <<0, 19, 1>>>>, <<<<133, 1, 7>>, <<0, 12, 1>>>>,
          <<<<133, 1, 1>>, <<0, 12, 1>>>>, <<<<137, 1, 7>>, <<0, 19, 1>>>>,
          <<<<137, 1, 1>>, <<0, 19, 1>>>>, <<<<137, 1, 7>>, <<0, 12, 1>>>>,
          <<<<137, 1, 1>>, <<0, 12, 1>>>>, <<<<138, 1, 10>>>>, <<<<138, 1, 1>>>>,
          <<<<144, 1, 7>>, <<0, 16, 1>>>>, <<<<144, 1, 1>>, <<0, 16, 1>>>>,
          <<<<144, 1, 7>>, <<0, 21, 1>>>>, <<<<144, 1, 1>>, <<0, 21, 1>>>>,
          <<<<144, 1, 7>>, <<0, 10, 1>>>>, <<<<144, 1, 1>>, <<0, 10, 1>>>>,
          <<<<144, 1, 7>>, <<0, 13, 1>>>>, <<<<144, 1, 1>>, <<0, 13, 1>>>>,
          <<<<144, 1, 7>>, <<0, 15, 1>>>>, <<<<144, 1, 1>>, <<0, 15, 1>>>>,
          <<<<144, 1, 7>>, <<0, 20, 1>>>>, <<<<144, 1, 1>>, <<0, 20, 1>>>>,
          <<<<151, 1, 10>>, <<0, 11, 1>>>>, <<<<151, 1, 1>>, <<0, 11, 1>>>>,
          <<<<153, 1, 7>>, <<0, 11, 1>>>>, <<<<153, 1, 1>>, <<0, 11, 1>>>>,
          <<<<153, 1, 7>>, <<0, 14, 1>>>>, <<<<157, 1, 7>>, <<0, 8, 1>>>>,
          <<<<157, 1, 1>>, <<0, 8, 1>>>>, <<<<157, 1, 7>>, <<0, 17, 1>>>>,
          <<<<157, 1, 1>>, <<0, 17, 1>>>>, <<<<157, 1, 7>>, <<0, 12, 1>>>>,
          <<<<157, 1, 1>>, <<0, 12, 1>>>>, <<<<133, 7, 1>>>>, <<<<77, 1, 1>>>>,
          <<<<78, 1, 10>>>>, <<<<79, 1, 10>>>>, <<<<79, 1, 1>>>>, <<<<169, 1, 10>>>>,
          <<<<169, 1, 1>>>>, <<<<122, 1, 10>>>>, <<<<82, 1, 10>>>>, <<<<82, 1, 1>>>>,
          <<<<84, 1, 10>>>>, <<<<85, 1, 10>>>>, <<<<86, 1, 10>>>>, <<<<86, 1, 1>>>>,
          <<<<157, 1, 4>>, <<151, 1, 5>>>>, <<<<90, 1, 10>>>>, <<<<91, 1, 6>>>>,
          <<<<92, 1, 3>>>>, <<<<94, 1, 10>>>>, <<<<94, 1, 1>>>>, <<<<97, 1, 10>>>>,
          <<<<98, 1, 10>>>>, <<<<101, 1, 1>>>>, <<<<105, 1, 10>>>>, <<<<104, 1, 10>>>>,
          <<<<110, 1, 10>>>>, <<<<110, 1, 1>>>>, <<<<112, 1, 1>>>>, <<<<114, 1, 1>>>>,
          <<<<146, 1, 10>>>>, <<<<117, 1, 10>>>>, <<<<118, 1, 1>>>>,
          <<<<123, 1, 10>>>>, <<<<121, 1, 7>>, <<0, 25, 1>>>>,
          <<<<121, 1, 1>>, <<0, 25, 1>>>>, <<<<99, 1, 10>>>>, <<<<99, 1, 1>>>>,
          <<<<126, 1, 10>>>>, <<<<126, 1, 1>>>>, <<<<131, 1, 9>>>>, <<<<167, 1, 10>>>>,
          <<<<167, 1, 1>>>>, <<<<135, 1, 9>>>>, <<<<136, 1, 1>>>>, <<<<140, 1, 1>>>>,
          <<<<141, 1, 10>>>>, <<<<141, 1, 1>>>>, <<<<142, 1, 10>>>>,
          <<<<144, 1, 7>>, <<0, 25, 1>>>>, <<<<144, 1, 1>>, <<0, 25, 1>>>>,
          <<<<147, 1, 10>>>>, <<<<149, 1, 10>>>>, <<<<155, 1, 10>>>>,
          <<<<155, 1, 1>>>>, <<<<158, 1, 10>>>>, <<<<158, 1, 1>>>>, <<<<161, 1, 9>>>>,
          <<<<162, 1, 10>>>>, <<<<162, 1, 1>>>>, <<<<163, 1, 1>>>>, <<<<166, 1, 1>>>>,
          <<<<168, 1, 10>>>>, <<<<168, 1, 1>>>>, <<<<137, 1, 4>>, <<133, 1, 4>>>>,
          <<<<165, 1, 1>>>>, <<<<175, 1, 1>>>>, <<<<176, 1, 1>>>>, <<<<177, 1, 1>>>>,
          <<<<178, 1, 1>>>>, <<<<83, 1, 11>>, <<157, 1, 11>>, <<0, 12, 10>>>>,
          <<<<83, 1, 11>>, <<157, 1, 4>>, <<0, 12, 10>>>>,
          <<<<83, 1, 4>>, <<157, 1, 4>>, <<0, 12, 10>>>>,
          <<<<111, 1, 11>>, <<106, 1, 11>>>>, <<<<111, 1, 11>>, <<106, 1, 4>>>>,
          <<<<111, 1, 4>>, <<106, 1, 4>>>>, <<<<116, 1, 11>>, <<106, 1, 11>>>>,
          <<<<116, 1, 11>>, <<106, 1, 4>>>>, <<<<116, 1, 4>>, <<106, 1, 4>>>>,
          <<<<74, 1, 7>>, <<0, 12, 1>>>>, <<<<74, 1, 1>>, <<0, 12, 1>>>>,
          <<<<102, 1, 7>>, <<0, 12, 1>>>>, <<<<102, 1, 1>>, <<0, 12, 1>>>>,
          <<<<121, 1, 7>>, <<0, 12, 1>>>>, <<<<121, 1, 1>>, <<0, 12, 1>>>>,
          <<<<144, 1, 7>>, <<0, 12, 1>>>>, <<<<144, 1, 1>>, <<0, 12, 1>>>>,
          <<<<144, 1, 7>>, <<0, 14, 1>>, <<0, 21, 1>>>>,
          <<<<144, 1, 1>>, <<0, 14, 1>>, <<0, 21, 1>>>>,
          <<<<144, 1, 7>>, <<0, 14, 1>>, <<0, 8, 1>>>>,
          <<<<144, 1, 1>>, <<0, 14, 1>>, <<0, 8, 1>>>>,
          <<<<144, 1, 7>>, <<0, 14, 1>>, <<0, 12, 1>>>>,
          <<<<144, 1, 1>>, <<0, 14, 1>>, <<0, 12, 1>>>>,
          <<<<144, 1, 7>>, <<0, 14, 1>>, <<0, 9, 1>>>>,
          <<<<144, 1, 1>>, <<0, 14, 1>>, <<0, 9, 1>>>>, <<<<90, 1, 1>>>>,
          <<<<74, 1, 7>>, <<0, 14, 1>>, <<0, 21, 1>>>>,
          <<<<74, 1, 1>>, <<0, 14, 1>>, <<0, 21, 1>>>>,
          <<<<74, 1, 7>>, <<0, 17, 1>>, <<0, 21, 1>>>>,
          <<<<74, 1, 1>>, <<0, 17, 1>>, <<0, 21, 1>>>>,
          <<<<74, 6, 10>>, <<88, 1, 11>>, <<0, 21, 1>>>>,
          <<<<74, 6, 1>>, <<88, 1, 4>>, <<0, 21, 1>>>>, <<<<96, 1, 10>>>>,
          <<<<96, 1, 1>>>>, <<<<95, 1, 7>>, <<0, 12, 1>>>>,
          <<<<95, 1, 1>>, <<0, 12, 1>>>>, <<<<109, 1, 7>>, <<0, 12, 1>>>>,
          <<<<109, 1, 1>>, <<0, 12, 1>>>>, <<<<121, 1, 7>>, <<0, 20, 1>>>>,
          <<<<121, 1, 1>>, <<0, 20, 1>>>>,
          <<<<121, 1, 7>>, <<0, 20, 1>>, <<0, 21, 1>>>>,
          <<<<121, 1, 1>>, <<0, 20, 1>>, <<0, 21, 1>>>>,
          <<<<161, 1, 9>>, <<0, 12, 1>>>>, <<<<161, 1, 1>>, <<0, 12, 1>>>>,
          <<<<106, 1, 1>>, <<0, 12, 1>>>>, <<<<83, 1, 11>>, <<157, 1, 11>>>>,
          <<<<83, 1, 11>>, <<157, 1, 4>>>>, <<<<83, 1, 4>>, <<157, 1, 4>>>>,
          <<<<95, 1, 7>>, <<0, 8, 1>>>>, <<<<95, 1, 1>>, <<0, 8, 1>>>>,
          <<<<101, 1, 10>>>>, <<<<165, 1, 10>>>>, <<<<116, 1, 7>>, <<0, 9, 1>>>>,
          <<<<116, 1, 1>>, <<0, 9, 1>>>>, <<<<74, 1, 7>>, <<0, 13, 1>>, <<0, 8, 1>>>>,
          <<<<74, 1, 1>>, <<0, 13, 1>>, <<0, 8, 1>>>>,
          <<<<74, 6, 10>>, <<88, 1, 11>>, <<0, 8, 1>>>>,
          <<<<74, 6, 1>>, <<88, 1, 4>>, <<0, 8, 1>>>>,
          <<<<121, 1, 7>>, <<0, 18, 1>>, <<0, 8, 1>>>>,
          <<<<121, 1, 1>>, <<0, 18, 1>>, <<0, 8, 1>>>>, <<<<74, 1, 7>>, <<0, 23, 1>>>>,
          <<<<74, 1, 1>>, <<0, 23, 1>>>>, <<<<74, 1, 7>>, <<0, 24, 1>>>>,
          <<<<74, 1, 1>>, <<0, 24, 1>>>>, <<<<88, 1, 7>>, <<0, 23, 1>>>>,
          <<<<88, 1, 1>>, <<0, 23, 1>>>>, <<<<88, 1, 7>>, <<0, 24, 1>>>>,
          <<<<88, 1, 1>>, <<0, 24, 1>>>>, <<<<102, 1, 7>>, <<0, 23, 1>>>>,
          <<<<102, 1, 1>>, <<0, 23, 1>>>>, <<<<102, 1, 7>>, <<0, 24, 1>>>>,
          <<<<102, 1, 1>>, <<0, 24, 1>>>>, <<<<121, 1, 7>>, <<0, 23, 1>>>>,
          <<<<121, 1, 1>>, <<0, 23, 1>>>>, <<<<121, 1, 7>>, <<0, 24, 1>>>>,
          <<<<121, 1, 1>>, <<0, 24, 1>>>>, <<<<130, 1, 7>>, <<0, 23, 1>>>>,
          <<<<130, 1, 1>>, <<0, 23, 1>>>>, <<<<130, 1, 7>>, <<0, 24, 1>>>>,
          <<<<130, 1, 1>>, <<0, 24, 1>>>>, <<<<144, 1, 7>>, <<0, 23, 1>>>>,
          <<<<144, 1, 1>>, <<0, 23, 1>>>>, <<<<144, 1, 7>>, <<0, 24, 1>>>>,
          <<<<144, 1, 1>>, <<0, 24, 1>>>>, <<<<133, 1, 7>>, <<0, 26, 1>>>>,
          <<<<133, 1, 1>>, <<0, 26, 1>>>>, <<<<137, 1, 7>>, <<0, 26, 1>>>>,
          <<<<137, 1, 1>>, <<0, 26, 1>>>>, <<<<156, 1, 10>>>>, <<<<156, 1, 1>>>>,
          <<<<100, 1, 7>>, <<0, 12, 1>>>>, <<<<100, 1, 1>>, <<0, 12, 1>>>>,
          <<<<118, 1, 10>>>>, <<<<87, 1, 1>>>>, <<<<124, 1, 10>>>>, <<<<124, 1, 1>>>>,
          <<<<159, 1, 10>>>>, <<<<159, 1, 1>>>>, <<<<74, 1, 7>>, <<0, 17, 1>>>>,
          <<<<74, 1, 1>>, <<0, 17, 1>>>>, <<<<88, 1, 7>>, <<0, 19, 1>>>>,
          <<<<88, 1, 1>>, <<0, 19, 1>>>>,
          <<<<121, 1, 7>>, <<0, 14, 1>>, <<0, 21, 1>>>>,
          <<<<121, 1, 1>>, <<0, 14, 1>>, <<0, 21, 1>>>>,
          <<<<121, 1, 7>>, <<0, 16, 1>>, <<0, 21, 1>>>>,
          <<<<121, 1, 1>>, <<0, 16, 1>>, <<0, 21, 1>>>>,
          <<<<121, 1, 7>>, <<0, 17, 1>>>>, <<<<121, 1, 1>>, <<0, 17, 1>>>>,
          <<<<121, 1, 7>>, <<0, 17, 1>>, <<0, 21, 1>>>>,
          <<<<121, 1, 1>>, <<0, 17, 1>>, <<0, 21, 1>>>>,
          <<<<153, 1, 7>>, <<0, 21, 1>>>>, <<<<153, 1, 1>>, <<0, 21, 1>>>>,
          <<<<113, 1, 1>>>>, <<<<119, 1, 1>>>>, <<<<143, 1, 1>>>>, <<<<107, 1, 1>>>>,
          <<<<83, 1, 4>>, <<76, 1, 4>>>>, <<<<127, 1, 4>>, <<125, 1, 4>>>>,
          <<<<75, 1, 10>>>>, <<<<81, 1, 10>>>>, <<<<81, 1, 1>>>>, <<<<112, 1, 10>>>>,
          <<<<139, 1, 10>>>>, <<<<134, 1, 1>>>>, <<<<160, 1, 1>>>>, <<<<170, 1, 10>>>>,
          <<<<170, 1, 1>>>>, <<<<77, 1, 10>>>>, <<<<145, 1, 10>>>>, <<<<150, 1, 10>>>>,
          <<<<89, 1, 10>>>>, <<<<89, 1, 1>>>>, <<<<108, 1, 10>>>>, <<<<108, 1, 1>>>>,
          <<<<128, 1, 10>>>>, <<<<128, 1, 1>>>>, <<<<132, 1, 10>>>>, <<<<132, 1, 1>>>>,
          <<<<154, 1, 10>>>>, <<<<154, 1, 1>>>>>>,
     replacement |-> <<<<180, 1, 1>>>>,
     swedish |->
        <<<<196, <<<<173, 1, 2>>>>>>, <<197, <<<<172, 1, 2>>>>>>,
          <<198, <<<<173, 2, 2>>>>>>, <<208, <<<<83, 3, 2>>>>>>,
          <<212, <<<<174, 5, 2>>>>>>, <<214, <<<<174, 1, 2>>>>>>,
          <<216, <<<<174, 2, 2>>>>>>, <<220, <<<<153, 2, 2>>>>>>,
          <<222, <<<<137, 1, 8>>, <<100, 1, 7>>>>>>, <<228, <<<<173, 1, 1>>>>>>,
          <<229, <<<<172, 1, 1>>>>>>, <<230, <<<<173, 2, 1>>>>>>,
          <<240, <<<<83, 3, 1>>>>>>, <<244, <<<<174, 5, 1>>>>>>,
          <<246, <<<<174, 1, 1>>>>>>, <<248, <<<<174, 2, 1>>>>>>,
          <<252, <<<<153, 2, 1>>>>>>, <<254, <<<<137, 1, 2>>, <<100, 1, 1>>>>>>,
          <<272, <<<<83, 2, 2>>>>>>, <<273, <<<<83, 2, 1>>>>>>,
          <<280, <<<<173, 3, 2>>>>>>, <<281, <<<<173, 3, 1>>>>>>,
          <<336, <<<<174, 3, 2>>>>>>, <<337, <<<<174, 3, 1>>>>>>,
          <<338, <<<<174, 4, 2>>>>>>, <<339, <<<<174, 4, 1>>>>>>,
          <<368, <<<<153, 3, 2>>>>>>, <<369, <<<<153, 3, 1>>>>>>,
          <<469, <<<<153, 2, 2>>, <<0, 21, 1>>>>>>,
          <<470, <<<<153, 2, 1>>, <<0, 21, 1>>>>>>,
          <<471, <<<<153, 2, 2>>, <<0, 8, 1>>>>>>,
          <<472, <<<<153, 2, 1>>, <<0, 8, 1>>>>>>,
          <<473, <<<<153, 2, 2>>, <<0, 12, 1>>>>>>,
          <<474, <<<<153, 2, 1>>, <<0, 12, 1>>>>>>,
          <<475, <<<<153, 2, 2>>, <<0, 9, 1>>>>>>,
          <<476, <<<<153, 2, 1>>, <<0, 9, 1>>>>>>,
          <<478, <<<<173, 1, 2>>, <<0, 21, 1>>>>>>,
          <<479, <<<<173, 1, 1>>, <<0, 21, 1>>>>>>,
          <<482, <<<<173, 2, 2>>, <<0, 21, 1>>>>>>,
          <<483, <<<<173, 2, 1>>, <<0, 21, 1>>>>>>,
          <<506, <<<<172, 1, 2>>, <<0, 8, 1>>>>>>,
          <<507, <<<<172, 1, 1>>, <<0, 8, 1>>>>>>,
          <<508, <<<<173, 2, 2>>, <<0, 8, 1>>>>>>,
          <<509, <<<<173, 2, 1>>, <<0, 8, 1>>>>>>,
          <<510, <<<<174, 2, 2>>, <<0, 8, 1>>>>>>,
          <<511, <<<<174, 2, 1>>, <<0, 8, 1>>>>>>,
          <<554, <<<<174, 1, 2>>, <<0, 21, 1>>>>>>,
          <<555, <<<<174, 1, 1>>, <<0, 21, 1>>>>>>>>]

\* The code points of the characters of str.
CodePoints(str) ==
    LET first(k) ==
            str[k] = "U+FFFD" \/ ByteValue(str[k]) <= 127 \/ ByteValue(str[k]) >= 192
        length(k) ==
            IF ByteValue(str[k]) <= 127 THEN 1
            ELSE IF ByteValue(str[k]) <= 223 THEN 2
            ELSE IF ByteValue(str[k]) <= 239 THEN 3 ELSE 4
    IN  Flatten([k \in 1..Len(str) |->
            IF ~first(k) THEN <<>>
            ELSE IF str[k] = "U+FFFD" THEN <<65533>>
            ELSE <<CodePoint(SubSeq(str, k, k + length(k) - 1))>>])

\* The collation elements, in the collation of locale, of the string of the
\* code points cps, in order.  An l or L followed by a middle dot (U+00B7) is
\* collated as the one letter U+0140 or U+013F.
CollationKey(locale, cps) ==
    LET dot(k) == cps[k] = 183 /\ k > 1 /\ cps[k - 1] \in {76, 108}
        letter(k) ==
            IF cps[k] \in {76, 108} /\ k < Len(cps) /\ cps[k + 1] = 183
            THEN IF cps[k] = 76 THEN 319 ELSE 320
            ELSE cps[k]
        tailoring == IF locale = "sv-SE" THEN CollationElements.swedish ELSE <<>>
        elements(cp) ==
            LET Tailors(t) == t[1] = cp
                tailored == SelectSeq(tailoring, Tailors)
            IN  IF tailored # <<>> THEN tailored[1][2]
                ELSE IF cp = 65533 THEN CollationElements.replacement
                ELSE CollationElements.root[cp + 1]
    IN  Flatten([k \in 1..Len(cps) |-> IF dot(k) THEN <<>> ELSE elements(letter(k))])

\* a.localeCompare(b) < 0 in a process of the given locale.  The strings are
\* compared by the weights of the first level of their elements, those that
\* are 0 left out; when these are the same, by the weights of the second level,
\* and then by those of the third.  Of two sequences of weights the one that is
\* less at the first position they differ at comes first, and so does one the
\* other continues.  Strings whose weights are the same at the three levels
\* compare as equal.
StringLess(locale, a, b) ==
    \E ka \in {CollationKey(locale, CodePoints(a))},
       kb \in {CollationKey(locale, CodePoints(b))} :
        LET IsWeight(w) == w # 0
            weights(key, level) ==
                SelectSeq([k \in 1..Len(key) |-> key[k][level]], IsWeight)
            less(u, v) ==
                \E i \in 1..Len(v) :
                    /\ Len(u) >= i - 1
                    /\ \A j \in 1..(i - 1) : u[j] = v[j]
                    /\ Len(u) >= i => u[i] < v[i]
        IN  IF weights(ka, 1) # weights(kb, 1)
            THEN less(weights(ka, 1), weights(kb, 1))
            ELSE IF weights(ka, 2) # weights(kb, 2)
            THEN less(weights(ka, 2), weights(kb, 2))
            ELSE less(weights(ka, 3), weights(kb, 3))

\* files.sort((a, b) => a.label.localeCompare(b.label)): a stable sort by
\* label, in the collation of the locale of the process.
RECURSIVE SortByLabel(_, _)
SortByLabel(locale, files) ==
    IF files = <<>>
    THEN <<>>
    ELSE LET rest == SortByLabel(locale, SubSeq(files, 1, Len(files) - 1))
             last == files[Len(files)]
             k == Cardinality({i \in 1..Len(rest) :
                                  ~StringLess(locale, last.label, rest[i].label)})
         IN  SubSeq(rest, 1, k) \o <<last>> \o SubSeq(rest, k + 1, Len(rest))

\* The mutant of GetOperation: an Overwrite operation also when the file exists.
GetOperationAlwaysOverwrite(statSucceeds) == Some("overwrite")

\* The value getOperation resolves with.  When fs.stat succeeds the prompt is
\* shown, but the promise of its answer is neither awaited nor returned, and
\* the function ends without a return statement: undefined.  When fs.stat
\* rejects, the catch clause returns an Overwrite operation.
GetOperation(statSucceeds) ==
    IF statSucceeds THEN Undefined ELSE Some("overwrite")

\* The window a command can be invoked in.  vscode.workspace.workspaceFolders
\* is undefined or an array, of 0 to 2 folders here; there is no active text
\* editor, or its document is inside one of the folders or outside all of
\* them; the repository object could be constructed or not; the locale is
\* that of the process the extension runs in, one of two here.
Workspaces ==
    {w \in [folders : {[defined |-> FALSE, length |-> 0]}
                          \cup {[defined |-> TRUE, length |-> n] : n \in 0..2},
            editor : {"none", "inside", "outside"},
            repository : BOOLEAN,
            locale : {"en-US", "sv-SE"}] :
        w.editor = "inside" => w.folders.length >= 1}

NoQuickPick == [files |-> "none", operation |-> "none"]
CommandRunning == [status |-> "running", reason |-> NoError]
CommandCompleted(reason) == [status |-> "completed", reason |-> reason]
CommandRejected(reason) == [status |-> "rejected", reason |-> reason]

\* The state of the command handler in a specification that does not run it.
CommandUnused ==
    /\ workspace = [folders |-> [defined |-> TRUE, length |-> 1], editor |-> "none",
                    repository |-> TRUE, locale |-> "en-US"]
    /\ cmd = "idle"
    /\ pickedFile = Undefined
    /\ quickPick = NoQuickPick
    /\ messages = <<>>
    /\ command = CommandRunning

(***************************************************************************)
(* The cache on its own: constructions, adds and lookups at any time.      *)
(***************************************************************************)
NoRet == [op |-> "none", key |-> <<>>, at |-> 0, item |-> Undefined, result |-> Undefined]

InitCache ==
    /\ now = 0
    /\ ticks = 0
    /\ cacheExpirationInterval \in Intervals
    /\ store = <<>>
    /\ pending = {}
    /\ added = <<>>
    /\ ret = NoRet
    /\ FetcherUnused
    /\ DownloadUnused
    /\ CommandUnused

\* Time passes.
Tick ==
    /\ ticks < MaxTicks
    /\ \E d \in ClockSteps : now' = now + d
    /\ ticks' = ticks + 1
    /\ UNCHANGED <<cacheExpirationInterval, store, pending, added, ret, fetchVars, dlVars, dedupVars, cmdVars>>

\* new CacheItem(key, value)
ConstructItem ==
    /\ Cardinality(pending) < MaxPending
    /\ \E k \in Keys, v \in CacheValues :
          pending' = pending \cup {NewCacheItem(k, v, now)}
    /\ ret' = [NoRet EXCEPT !.op = "new", !.at = now]
    /\ UNCHANGED <<now, ticks, cacheExpirationInterval, store, added, fetchVars, dlVars, dedupVars, cmdVars>>

\* cache.add(item), for an item constructed earlier
Add ==
    /\ \E item \in pending :
          /\ store' = CacheAdd(store, item)
          /\ added' = IF CacheAddThrown(store, item).defined
                       THEN added
                       ELSE [k \in DOMAIN added \cup {item.key} |->
                                IF k = item.key THEN item ELSE added[k]]
          /\ pending' = pending \ {item}
          /\ ret' = [NoRet EXCEPT !.op = "add", !.key = item.key, !.at = now,
                                  !.result = CacheAddThrown(store, item)]
    /\ UNCHANGED <<now, ticks, cacheExpirationInterval, fetchVars, dlVars, dedupVars, cmdVars>>

\* cache.get(key)
Get ==
    /\ \E k \in Keys :
          /\ ret' = [op |-> "get", key |-> k, at |-> now,
                  item |-> StoreLookup(store, k),
                  result |-> CacheGet(store, k, cacheExpirationInterval, now)]
          /\ store' = StoreAfterLookup(store, k, cacheExpirationInterval, now)
    /\ UNCHANGED <<now, ticks, cacheExpirationInterval, pending, added, fetchVars, dlVars, dedupVars, cmdVars>>

\* cache.getCacheItem(key)
GetCacheItem ==
    /\ \E k \in Keys :
          /\ ret' = [op |-> "getCacheItem", key |-> k, at |-> now,
                  item |-> StoreLookup(store, k),
                  result |-> CacheGetCacheItem(store, k, cacheExpirationInterval, now)]
          /\ store' = StoreAfterLookup(store, k, cacheExpirationInterval, now)
    /\ UNCHANGED <<now, ticks, cacheExpirationInterval, pending, added, fetchVars, dlVars, dedupVars, cmdVars>>

NextCache == Tick \/ ConstructItem \/ Add \/ Get \/ GetCacheItem

SpecCache == InitCache /\ [][NextCache]_vars

(***************************************************************************)
(* Claims about the cache, checked under SpecCache.                        *)
(***************************************************************************)
\* The age, in milliseconds, of the item a lookup found, at the time of the lookup.
RetAge == ret.at - ret.item.value.storeDate

\* C1, as stated: get(key) returns absent exactly when no entry is stored under
\* key or now - storedAt >= expirationInterval, and otherwise the stored value;
\* an entry whose age equals the interval exactly is reported absent.
C1_AbsentIffMissingOrAgeAtLeastInterval ==
    ret.op = "get" =>
        /\ ~ret.result.defined <=>
              (~ret.item.defined \/ RetAge >= cacheExpirationInterval * 1000)
        /\ ret.result.defined => ret.result.value = ret.item.value.value

\* C1, amended: get(key) returns absent exactly when no entry is stored under key
\* or now - storedAt > expirationInterval (strictly older than the interval), and
\* otherwise the stored value; an entry whose age equals the interval exactly is
\* still returned.
C1_AbsentIffMissingOrOlderThanInterval ==
    ret.op = "get" =>
        /\ ~ret.result.defined <=>
              (~ret.item.defined \/ RetAge > cacheExpirationInterval * 1000)
        /\ ret.result.defined => ret.result.value = ret.item.value.value

\* C1's case: a get of an entry whose age is exactly a non-zero interval, which
\* returned the stored value.
C1_Witness ==
    /\ ret.op = "get"
    /\ ret.item.defined
    /\ cacheExpirationInterval > 0
    /\ RetAge = cacheExpirationInterval * 1000
    /\ ret.result = Some(ret.item.value.value)

\* C2: after add of an item (k, v), every get(k) performed while the entry's age
\* is inside the expiration window and before a later add under k returns exactly
\* v, whatever was added or read under other keys in between.
C2_RoundTrip ==
    (/\ ret.op = "get"
     /\ ret.key \in DOMAIN added
     /\ ret.at - added[ret.key].storeDate < cacheExpirationInterval * 1000)
    => ret.result = Some(added[ret.key].value)

\* C2's case: a get inside the window, some time after the add, that returned the
\* added value while another key holds a different value.
C2_Witness ==
    /\ ret.op = "get"
    /\ ret.key \in DOMAIN added
    /\ ret.at > added[ret.key].storeDate
    /\ ret.at - added[ret.key].storeDate < cacheExpirationInterval * 1000
    /\ ret.result = Some(added[ret.key].value)
    /\ \E k \in DOMAIN added : added[k].value # added[ret.key].value

\* C3: get and getCacheItem leave the backing store unchanged; a lookup of an
\* expired entry returns absent, as for a missing key, and the entry stays in
\* the store; no operation removes a key from the store.
C3_LookupsLeaveStore ==
    [][/\ DOMAIN store \subseteq DOMAIN store'
       /\ ret'.op \in {"get", "getCacheItem"} =>
             /\ store' = store
             /\ (ret'.item.defined /\
                  ret'.at - ret'.item.value.storeDate > cacheExpirationInterval * 1000)
                => (~ret'.result.defined /\ ret'.key \in DOMAIN store')]_vars

\* C3's case: a get that found an expired entry, returned absent and left the
\* entry in the store.
C3_Witness ==
    /\ ret.op = "get"
    /\ ret.item.defined
    /\ ~ret.result.defined
    /\ ret.key \in DOMAIN store
    /\ store[ret.key] = ret.item.value

\* C21, as stated: every entry carries storedAt equal to the clock value at the
\* moment it was put into the store, and for each key the storedAt of entries
\* stored one after the other never decreases, for every sequence of CacheItem
\* constructions and Cache.add calls.
C21_StoredAtIsTimeOfAdd ==
    [][(ret'.op = "add" /\ pending' # pending) =>
          /\ store'[ret'.key].storeDate = now
          /\ ret'.key \in DOMAIN store
                => store[ret'.key].storeDate <= store'[ret'.key].storeDate]_vars

\* C21, amended: every entry carries storedAt equal to the clock value at the
\* moment its CacheItem was constructed, which is never later than the moment
\* it is put into the store; when the item is added as soon as it is
\* constructed, nothing else being constructed or added in between, storedAt is
\* the time of the add and is not less than that of the entry it replaces.
C21_StoredAtIsTimeOfConstruction ==
    [][/\ (ret'.op = "new" /\ pending' # pending)
             => \A item \in pending' \ pending : item.storeDate = now
       /\ (ret'.op = "add" /\ pending' # pending)
             => /\ store'[ret'.key] \in pending
                /\ store'[ret'.key].storeDate <= now
       /\ (/\ ret'.op = "add" /\ pending' # pending
           /\ ret.op = "new" /\ ret.at = now /\ Cardinality(pending) = 1)
             => /\ store'[ret'.key].storeDate = now
                /\ ret'.key \in DOMAIN store
                      => store[ret'.key].storeDate <= store'[ret'.key].storeDate]_vars

\* C21's case: an item constructed after the clock had advanced was added at
\* once, and the store holds under another key an entry stored earlier.
C21_Witness ==
    /\ ret.op = "add"
    /\ ret.at = now
    /\ now > 0
    /\ store[ret.key].storeDate = now
    /\ \E k \in DOMAIN store : store[k].storeDate < now

(***************************************************************************)
(* The catalog fetcher: getFiles calls, which may overlap, on one cache.   *)
(***************************************************************************)
\* How many getFiles calls may await their responses at the same time.
MaxInflight == 2
\* The longest listing the remote answers with, where the calls are interleaved.
MaxFetchListing == 1
\* The longest listing the remote answers with, where one call is followed.
MaxListing == 3

\* Entries of a listing, as the remote reports them.
EntryA == [type |-> "file", name |-> <<"a">> \o Suffix, path |-> <<"a">> \o Suffix]
EntryRoot == [type |-> "file", name |-> Suffix, path |-> Suffix]
EntryTxt == [type |-> "file", name |-> <<"b", ".", "t", "x", "t">>,
             path |-> <<"b", ".", "t", "x", "t">>]
EntryC == [type |-> "file", name |-> <<"c">> \o Suffix, path |-> <<"s", "/", "c">> \o Suffix]
EntryDir == [type |-> "dir", name |-> <<"d">> \o Suffix, path |-> <<"d">> \o Suffix]
EntryTwice == [type |-> "file", name |-> <<"a">> \o Suffix \o <<"b">> \o Suffix,
               path |-> <<"a">> \o Suffix \o <<"b">> \o Suffix]

EntryUpper == [type |-> "file", name |-> <<"B">> \o Suffix, path |-> <<"B">> \o Suffix]

ListingEntries == {EntryA, EntryRoot, EntryTxt, EntryC, EntryDir, EntryTwice}
FetchEntries == {EntryA}

\* The listings of at most n entries drawn from E.
Listings(E, n) == UNION {[1..k -> E] : k \in 0..n}

ListingResponse(l) == [kind |-> "listing", data |-> l, error |-> <<>>]
\* The remote answers with a single file: response.data is an object, not an array.
FileResponse == [kind |-> "file", data |-> <<>>, error |-> <<>>]
\* The request fails with an error that has a code and a message, or a message only.
CodedErrorResponse ==
    [kind |-> "error", data |-> <<>>,
     error |-> [hasCode |-> TRUE, code |-> "404", message |-> <<"Not Found">>]]
PlainErrorResponse ==
    [kind |-> "error", data |-> <<>>,
     error |-> [hasCode |-> FALSE, code |-> "", message |-> <<"socket hang up">>]]

FetchResponses ==
    {CodedErrorResponse, FileResponse}
        \cup {ListingResponse(l) : l \in Listings(FetchEntries, MaxFetchListing)}
ListingResponses ==
    {PlainErrorResponse, FileResponse}
        \cup {ListingResponse(l) : l \in Listings(ListingEntries, MaxListing)}

\* The expiration intervals, in seconds, the fetcher's cache is configured with.
FetchIntervals == {1}

InitFetch ==
    /\ now = 0
    /\ ticks = 0
    /\ cacheExpirationInterval \in FetchIntervals
    /\ store = <<>>
    /\ pending = {}
    /\ added = <<>>
    /\ ret = NoRet
    /\ variant \in {1, 2}
    /\ calls = [i \in 1..MaxInflight |-> IdleCall]
    /\ fetched = <<>>
    /\ done = NoDone
    /\ DownloadUnused
    /\ CommandUnused

\* getFiles(path), up to its return from the cache or its await of the remote.
GetFilesStart ==
    \E path \in Paths :
        LET item == CacheGet(store, CacheKey(path), cacheExpirationInterval, now)
        IN  IF item.defined
            THEN /\ done' = [op |-> "getFiles", path |-> path, hit |-> TRUE,
                             cached |-> item,
                             response |-> NoResponse, net |-> 0, wrote |-> FALSE,
                             over |-> "none",
                             outcome |-> GetFilesOnHit(variant, item.value)]
                 /\ UNCHANGED <<cacheVars, cacheHist, variant, calls, fetched, dlVars, dedupVars, cmdVars>>
            ELSE /\ \E i \in DOMAIN calls :
                       /\ calls[i].pc = "idle"
                       /\ \A j \in DOMAIN calls : calls[j].pc = "idle" => i <= j
                       /\ calls' = [calls EXCEPT ![i] =
                                       [pc |-> "awaiting", path |-> path]]
                 /\ UNCHANGED <<cacheVars, cacheHist, variant, fetched, done, dlVars, dedupVars, cmdVars>>

\* getFiles from the arrival of the remote's response, one of R, to its end.
GetFilesRespond(R) ==
    \E i \in DOMAIN calls, answer \in R :
        LET call == calls[i]
            outcome == GetFilesOnResponse(variant, answer)
            item == NewCacheItem(CacheKey(call.path), outcome.result, now)
        IN  /\ call.pc = "awaiting"
            /\ calls' = [calls EXCEPT ![i] = IdleCall]
            /\ done' = [op |-> "getFiles", path |-> call.path,
                        hit |-> FALSE, cached |-> Undefined,
                        response |-> answer, net |-> 1, wrote |-> outcome.ok,
                        over |-> EntryState(store, CacheKey(call.path),
                                            cacheExpirationInterval, now),
                        outcome |-> outcome]
            /\ IF outcome.ok
               THEN /\ store' = CacheAdd(store, item)
                    /\ added' = [k \in DOMAIN added \cup {item.key} |->
                                    IF k = item.key THEN item ELSE added[k]]
                    /\ fetched' = [q \in DOMAIN fetched \cup {call.path} |->
                                      IF q = call.path
                                      THEN [result |-> outcome.result, at |-> now]
                                      ELSE fetched[q]]
               ELSE UNCHANGED <<store, added, fetched>>
            /\ UNCHANGED <<now, ticks, cacheExpirationInterval, pending, ret, variant, dlVars, dedupVars, cmdVars>>

GetFilesResponse == GetFilesRespond(FetchResponses)

NextFetch == Tick \/ GetFilesStart \/ GetFilesResponse

SpecFetch == InitFetch /\ [][NextFetch]_vars

\* One getFiles call on a cache that holds nothing, answered with any listing.
GetFilesFirst ==
    /\ done = NoDone
    /\ \A i \in DOMAIN calls : calls[i].pc = "idle"
    /\ GetFilesStart
GetFilesListing == GetFilesRespond(ListingResponses)

NextListing == GetFilesFirst \/ GetFilesListing

SpecListing == InitFetch /\ [][NextListing]_vars

(***************************************************************************)
(* Claims about getFiles.                                                  *)
(***************************************************************************)
\* C4, checked under SpecFetch: whenever getFiles(path) is called and
\* cache.get('gitattributes/' + path) gives a value, getFiles returns that value
\* unchanged, makes no network call, writes nothing to the cache and does not
\* fail.  The second variant of getFiles throws on a hit.
C4_HitReturnsCachedValue ==
    [][(done' # done /\ done'.hit) =>
          /\ done'.cached.defined
          /\ done'.outcome = Returned(done'.cached.value)
          /\ done'.net = 0
          /\ ~done'.wrote
          /\ store' = store
          /\ calls' = calls]_vars

\* C5, checked under SpecFetch: once a getFiles(path) call has got its result
\* from the remote, a further getFiles(path) call made within the expiration
\* window awaits no response of the remote and returns the same sequence,
\* whatever calls on other paths are made in between.
C5_NoRefetchInsideWindow ==
    [][\A p \in Paths :
          (/\ p \in DOMAIN fetched
           /\ now - fetched[p].at < cacheExpirationInterval * 1000)
          => /\ \A i \in DOMAIN calls :
                   (calls'[i].pc = "awaiting" /\ calls'[i].path = p)
                       => calls[i] = calls'[i]
             /\ (done' # done /\ done'.hit /\ done'.path = p)
                   => done'.outcome = Returned(fetched[p].result)]_vars

\* The key the claims expect getFiles to use for path.
KeyOf(p) == <<"gitattributes/">> \o p

\* C22, checked under SpecFetch: on a cache miss, no entry or an expired one,
\* a getFiles(path) call performs exactly one network call, and when that call
\* succeeds exactly one cache write, under the key 'gitattributes/' + path and
\* of the sequence it returns, which leaves the other keys alone; an expired
\* entry is replaced by it, and a later lookup of the key within the new window
\* gives the sequence fetched last.
C22_MissFetchesOnceWritesOnce ==
    [][/\ (\E i \in DOMAIN calls : calls[i].pc = "awaiting" /\ calls'[i].pc = "idle")
          => /\ ~done'.hit
             /\ done'.net = 1
             /\ done'.wrote = done'.outcome.ok
             /\ done'.outcome.ok
                   => /\ DOMAIN store' = DOMAIN store \cup {KeyOf(done'.path)}
                      /\ \A k \in DOMAIN store : k # KeyOf(done'.path) => store'[k] = store[k]
                      /\ store'[KeyOf(done'.path)] =
                            [key |-> KeyOf(done'.path),
                             value |-> done'.outcome.result,
                             storeDate |-> now]
       /\ \A p \in Paths :
             (p \in DOMAIN fetched /\ now - fetched[p].at < cacheExpirationInterval * 1000)
                => /\ KeyOf(p) \in DOMAIN store
                   /\ store[KeyOf(p)].value = fetched[p].result
                   /\ store[KeyOf(p)].storeDate + cacheExpirationInterval * 1000 >= now]_vars

\* C22's case: a call that found an expired entry under its key fetched a
\* listing with a template in it and wrote it over the entry, while the other
\* key holds an entry as well.
C22_Witness ==
    /\ done.op = "getFiles"
    /\ ~done.hit
    /\ done.over = "expired"
    /\ done.outcome.ok
    /\ done.outcome.result # <<>>
    /\ store[KeyOf(done.path)].value = done.outcome.result
    /\ store[KeyOf(done.path)].storeDate = now
    /\ \E k \in DOMAIN store : k # KeyOf(done.path)

\* C23, checked under SpecFetch: when getFiles calls for the same path overlap,
\* each completes when its response arrives, without disturbing the others;
\* a call that succeeds leaves its own result in the cache, over the entry a
\* call that ended before it wrote (the last write wins); and the cache never
\* holds, under the key of a path, a value other than the filtered result of
\* the fetch for that path that completed last.
C23_LastWriteWins ==
    [][/\ \A i \in DOMAIN calls :
             (calls[i].pc = "awaiting" /\ calls'[i].pc = "idle")
                => /\ \A j \in DOMAIN calls : j # i => calls'[j] = calls[j]
                   /\ done'.path = calls[i].path
                   /\ done'.outcome.ok
                         => /\ done'.response.kind = "listing"
                            /\ done'.outcome.result = Files(done'.response.data)
                            /\ store'[KeyOf(done'.path)].value = done'.outcome.result
       /\ \A p \in Paths :
             KeyOf(p) \in DOMAIN store
                => /\ p \in DOMAIN fetched
                   /\ store[KeyOf(p)].value = fetched[p].result
                   /\ store[KeyOf(p)].storeDate = fetched[p].at
       /\ \A k \in DOMAIN store : \E p \in Paths : k = KeyOf(p)]_vars

\* C23's case: two calls for one path overlapped and both have finished; the
\* one that ended last began with a miss, found at its end a live entry, which
\* the other had stored in the meantime, and wrote its own result over it.
C23_Witness ==
    /\ done.op = "getFiles"
    /\ ~done.hit
    /\ done.over = "live"
    /\ done.outcome.ok
    /\ done.outcome.result # <<>>
    /\ store[CacheKey(done.path)].value = done.outcome.result
    /\ \A i \in DOMAIN calls : calls[i].pc = "idle"

\* The positions of the entries of listing l that the filter is to keep.
Surviving(l) ==
    {i \in 1..Len(l) :
        /\ l[i].type = "file"
        /\ l[i].name # Suffix
        /\ Len(l[i].name) >= Len(Suffix)
        /\ \A j \in 1..Len(Suffix) :
              l[i].name[Len(l[i].name) - Len(Suffix) + j] = Suffix[j]}

\* The position, among the surviving entries of l, of the one at position i.
Rank(l, i) == Cardinality({j \in Surviving(l) : j <= i})

\* C6, checked under SpecListing: on a cache miss answered with a listing,
\* getFiles returns one descriptor per entry with type = file, name #
\* '.gitattributes' and name ending in '.gitattributes', in the listing's order:
\* none reordered, none added, none dropped.
C6_FilteredInListingOrder ==
    (done.op = "getFiles" /\ ~done.hit /\ done.response.kind = "listing") =>
        /\ done.outcome.ok
        /\ Len(done.outcome.result) = Cardinality(Surviving(done.response.data))
        /\ \A i \in Surviving(done.response.data) :
              /\ done.outcome.result[Rank(done.response.data, i)].url
                    = done.response.data[i].path
              /\ done.outcome.result[Rank(done.response.data, i)].description
                    = done.response.data[i].path

\* C6's case: a listing of three entries whose first and last entries are
\* different templates and whose second is not one, answered with two descriptors.
C6_Witness ==
    /\ done.op = "getFiles"
    /\ ~done.hit
    /\ done.response.kind = "listing"
    /\ Len(done.response.data) = 3
    /\ Surviving(done.response.data) = {1, 3}
    /\ done.response.data[1] # done.response.data[3]
    /\ Len(done.outcome.result) = 2
    /\ done.outcome.result[2].url = done.response.data[3].path

\* C7, checked under SpecListing: the descriptor of every surviving entry has
\* label = name without its trailing '.gitattributes' (and nothing else removed,
\* also when '.gitattributes' occurs earlier in the name), description = path and
\* url = path.  The code removes the first occurrence, not the trailing one.
C7_LabelIsNameWithoutSuffix ==
    (done.op = "getFiles" /\ ~done.hit /\ done.response.kind = "listing"
        /\ Len(done.outcome.result) = Cardinality(Surviving(done.response.data))) =>
        \A i \in Surviving(done.response.data) :
            done.outcome.result[Rank(done.response.data, i)] =
                [label |-> SubSeq(done.response.data[i].name, 1,
                                  Len(done.response.data[i].name) - Len(Suffix)),
                 description |-> done.response.data[i].path,
                 url |-> done.response.data[i].path]

\* C18, checked under SpecFetch: when the remote call fails or answers with a
\* single file and not a listing, getFiles fails, with the format error in the
\* second case, after one network call, and leaves the cache as it was; so the
\* call made next for a path whose call failed, the cache holding no live entry
\* under its key, is not served from the cache but reaches the remote again.
C18_FailureLeavesCache ==
    [][/\ (/\ \E i \in DOMAIN calls : calls[i].pc = "awaiting" /\ calls'[i].pc = "idle"
           /\ done'.response.kind # "listing")
          => /\ ~done'.hit
             /\ ~done'.outcome.ok
             /\ done'.net = 1
             /\ ~done'.wrote
             /\ store' = store
             /\ done'.response.kind = "file"
                   => done'.outcome = Thrown(<<"Response sent wrong type.">>)
       /\ (/\ done.op = "getFiles"
           /\ ~done.hit
           /\ ~done.outcome.ok
           /\ ~CacheGet(store, CacheKey(done.path), cacheExpirationInterval, now).defined)
          => ~(done' # done /\ done'.hit /\ done'.path = done.path)]_vars

\* C18's case: a call that the remote answered with a single file failed with
\* the format error, the cache holds nothing under its key, and the call made
\* next for the same path awaits the remote.
C18_Witness ==
    /\ done.op = "getFiles"
    /\ done.response.kind = "file"
    /\ done.outcome = Thrown(<<"Response sent wrong type.">>)
    /\ CacheKey(done.path) \notin DOMAIN store
    /\ \E i \in DOMAIN calls : calls[i].pc = "awaiting" /\ calls[i].path = done.path

(***************************************************************************)
(* The merge engine: one invocation of download, with deduplicate.  Every  *)
(* call to the file system or the remote may fail.                         *)
(***************************************************************************)
\* What getContent answers a download with.
RemoteError == [kind |-> "error", type |-> "", content |-> Undefined, encoding |-> ""]
Entry(type, content, encoding) ==
    [kind |-> "entry", type |-> type, content |-> content, encoding |-> encoding]

\* 'KiB0ZXh0PWF1dG8K', the base64 encoding of '* text=auto\n'
MarkerLineBase64 ==
    <<"K", "i", "B", "0", "Z", "X", "h", "0", "P", "W", "F", "1", "d", "G", "8", "K">>

DownloadResponses ==
    {RemoteError,
     Entry("dir", Undefined, ""),
     Entry("file", Undefined, ""),
     Entry("file", Some(<<>>), "base64"),
     Entry("file", Some(MarkerLineBase64), "base64"),
     Entry("file", Some(<<"e", "A", "=", "=", LF>>), "base64"),
     Entry("file", Some(<<"e", "A">>), "utf-8"),
     Entry("file", Some(Marker \o <<LF>> \o Marker), "utf-8")}

\* The contents the target file may have when download is called.
TargetContents == {Marker \o <<LF>>, <<"x">>}

\* The file systems download may be called on: the target exists or does not.
InitialFileSystems ==
    {<<>>} \cup {[q \in {TargetPath} |-> c] : c \in TargetContents}

Rejecting(error) == [status |-> "running", error |-> error]
Rejected(error) == [status |-> "rejected", error |-> error]
ReturnedOperation == [status |-> "returned", error |-> ""]

DedupLocalsUnset ==
    /\ contents = <<>>
    /\ lines = <<>>
    /\ idx = 0
    /\ found = FALSE
    /\ part = 0
    /\ written = <<>>

InitDownload ==
    /\ now = 0
    /\ ticks = 0
    /\ cacheExpirationInterval \in FetchIntervals
    /\ store = <<>>
    /\ pending = {}
    /\ added = <<>>
    /\ ret = NoRet
    /\ FetcherUnused
    /\ opType \in {"append", "overwrite"}
    /\ pc = "open"
    /\ fs \in InitialFileSystems
    /\ handles = {}
    /\ sep = "none"
    /\ response = RemoteError
    /\ buffer = <<>>
    /\ DedupLocalsUnset
    /\ result = Running
    /\ before = fs
    /\ CommandUnused

others == <<cacheVars, cacheHist, fetchVars, opType, before, cmdVars>>

\* A step of download that fails with error: control goes to the catch clause.
Fails(at, error) ==
    /\ pc = at
    /\ pc' = "catch"
    /\ result' = Rejecting(error)
    /\ UNCHANGED <<fs, handles, sep, response, buffer, dedupVars, others>>

\* const file = await fs.open(operation.path, flags); if (flags === 'a') file.write('\n')
Open ==
    /\ pc = "open"
    /\ fs' = FsOpen(fs, TargetPath, Flags(opType))
    /\ handles' = handles \cup {"file"}
    /\ sep' = IF Flags(opType) = "a" THEN "pending" ELSE "none"
    /\ pc' = "fetch"
    /\ UNCHANGED <<response, buffer, result, dedupVars, others>>

\* fs.open rejects: download rejects, outside its try statement.
OpenFails ==
    /\ pc = "open"
    /\ pc' = "rejected"
    /\ result' = Rejected("open")
    /\ UNCHANGED <<fs, handles, sep, response, buffer, dedupVars, others>>

\* The separator write, which nothing awaits, completes.
SeparatorWrite ==
    /\ sep = "pending"
    /\ fs' = FsAppend(fs, TargetPath, <<LF>>)
    /\ sep' = "written"
    /\ UNCHANGED <<pc, handles, response, buffer, result, dedupVars, others>>

\* The separator write fails: its rejection is handled nowhere.
SeparatorWriteFails ==
    /\ sep = "pending"
    /\ sep' = "failed"
    /\ UNCHANGED <<pc, fs, handles, response, buffer, result, dedupVars, others>>

\* await this.client.repos.getContent(...) rejects.
FetchFails ==
    /\ pc = "fetch"
    /\ response' = RemoteError
    /\ pc' = "catch"
    /\ result' = Rejecting("fetch")
    /\ UNCHANGED <<fs, handles, sep, buffer, dedupVars, others>>

\* The entry fetched is not a file with content: 'Response sent wrong type.'
FetchUnusable ==
    /\ pc = "fetch"
    /\ \E r \in DownloadResponses :
          /\ r.kind = "entry"
          /\ ~IsUsableFile(r)
          /\ response' = r
    /\ pc' = "catch"
    /\ result' = Rejecting("Response sent wrong type.")
    /\ UNCHANGED <<fs, handles, sep, buffer, dedupVars, others>>

\* The entry fetched is a file with content, which is decoded.
Fetch ==
    /\ pc = "fetch"
    /\ \E r \in DownloadResponses :
          /\ r.kind = "entry"
          /\ IsUsableFile(r)
          /\ response' = r
          /\ buffer' = Decode(r.content.value, r.encoding)
    /\ pc' = "write"
    /\ UNCHANGED <<fs, handles, sep, result, dedupVars, others>>

\* await file.write(buffer)
Write ==
    /\ pc = "write"
    /\ fs' = FsAppend(fs, TargetPath, buffer)
    /\ pc' = "close"
    /\ UNCHANGED <<handles, sep, response, buffer, result, dedupVars, others>>

WriteFails == pc = "write" /\ Fails("write", "write")

\* await file.close(), which waits for the operations pending on the handle.
Close ==
    /\ pc = "close"
    /\ sep # "pending"
    /\ handles' = handles \ {"file"}
    /\ IF Flags(opType) = "a"
       THEN pc' = "dedupOpen" /\ UNCHANGED result
       ELSE pc' = "returned" /\ result' = ReturnedOperation
    /\ UNCHANGED <<fs, sep, response, buffer, dedupVars, others>>

\* file.close() rejects; the handle is closed all the same.
CloseFails ==
    /\ pc = "close"
    /\ sep # "pending"
    /\ handles' = handles \ {"file"}
    /\ pc' = "catch"
    /\ result' = Rejecting("close")
    /\ UNCHANGED <<fs, sep, response, buffer, dedupVars, others>>

\* deduplicate: const newFile = await fs.open(newPath, 'w')
DedupOpen ==
    /\ pc = "dedupOpen"
    /\ fs' = FsOpen(fs, NewPath, "w")
    /\ handles' = handles \cup {"newFile"}
    /\ found' = FALSE
    /\ pc' = "dedupRead"
    /\ UNCHANGED <<sep, response, buffer, result, contents, lines, idx, part, written, others>>

DedupOpenFails == pc = "dedupOpen" /\ Fails("dedupOpen", "open new")

\* deduplicate: the file is read and split into lines.
DedupRead ==
    /\ pc = "dedupRead"
    /\ TargetPath \in DOMAIN fs
    /\ contents' = fs[TargetPath]
    /\ \E text \in {BufferToString(fs[TargetPath])} : lines' = Split(text)
    /\ idx' = 0
    /\ pc' = "dedupLoop"
    /\ UNCHANGED <<fs, handles, sep, response, buffer, result, found, part, written, others>>

DedupReadFails == pc = "dedupRead" /\ Fails("dedupRead", "readFile")

\* deduplicate: one awaited newFile.write of the loop over the lines completes.
\* The iteration on a repeated marker line makes two of them; after the last
\* write of an iteration the loop moves to the next line.
DedupWrite ==
    /\ pc = "dedupLoop"
    /\ idx < Len(lines)
    /\ LET it == DedupIteration(lines[idx + 1], found)
           str == it.writes[part + 1]
       IN  /\ fs' = FsAppend(fs, NewPath, Utf8(str))
           /\ written' = Append(written, str)
           /\ IF part + 1 = Len(it.writes)
              THEN idx' = idx + 1 /\ found' = it.found /\ part' = 0
              ELSE part' = part + 1 /\ UNCHANGED <<idx, found>>
    /\ UNCHANGED <<pc, handles, sep, response, buffer, result, contents, lines, others>>

\* The newFile.write under way rejects; what the writes before it put into the
\* new file stays there.
DedupWriteFails == idx < Len(lines) /\ Fails("dedupLoop", "write new")

\* The mutant of DedupReturn: deduplicate never returns after the last line.
DedupReturnNever ==
    /\ pc = "dedupLoop"
    /\ idx = Len(lines)
    /\ FALSE
    /\ UNCHANGED vars

\* deduplicate returns newPath, after the last line.
DedupReturn ==
    /\ pc = "dedupLoop"
    /\ idx = Len(lines)
    /\ pc' = "unlink"
    /\ UNCHANGED <<fs, handles, sep, response, buffer, result, dedupVars, others>>

\* await fs.unlink(operation.path)
Unlink ==
    /\ pc = "unlink"
    /\ fs' = FsUnlink(fs, TargetPath)
    /\ pc' = "rename"
    /\ UNCHANGED <<handles, sep, response, buffer, result, dedupVars, others>>

UnlinkFails == pc = "unlink" /\ Fails("unlink", "unlink")

\* await fs.rename(newFilename, operation.path); return operation
Rename ==
    /\ pc = "rename"
    /\ fs' = FsRename(fs, NewPath, TargetPath)
    /\ pc' = "returned"
    /\ result' = ReturnedOperation
    /\ UNCHANGED <<handles, sep, response, buffer, dedupVars, others>>

RenameFails == pc = "rename" /\ Fails("rename", "rename")

\* catch, flags === 'w': await fs.unlink(operation.path); throw error
CleanupUnlink ==
    /\ pc = "catch"
    /\ Flags(opType) = "w"
    /\ fs' = FsUnlink(fs, TargetPath)
    /\ pc' = "rejected"
    /\ result' = Rejected(result.error)
    /\ UNCHANGED <<handles, sep, response, buffer, dedupVars, others>>

\* catch, flags === 'w': the unlink rejects, and its error leaves download.
CleanupUnlinkFails ==
    /\ pc = "catch"
    /\ Flags(opType) = "w"
    /\ pc' = "rejected"
    /\ result' = Rejected("cleanup unlink")
    /\ UNCHANGED <<fs, handles, sep, response, buffer, dedupVars, others>>

\* catch, flags === 'a': throw error
Rethrow ==
    /\ pc = "catch"
    /\ Flags(opType) = "a"
    /\ pc' = "rejected"
    /\ result' = Rejected(result.error)
    /\ UNCHANGED <<fs, handles, sep, response, buffer, dedupVars, others>>

\* The runtime closes a FileHandle that was not closed once nothing refers to
\* it any more: newFile when deduplicate has returned or thrown, file when
\* download has settled and no write on it is pending.
HandleCollected ==
    /\ \E handle \in handles :
          /\ handle = "newFile" => pc \notin {"dedupRead", "dedupLoop"}
          /\ handle = "file" => (pc \in {"returned", "rejected"} /\ sep # "pending")
          /\ handles' = handles \ {handle}
    /\ UNCHANGED <<pc, fs, sep, response, buffer, result, dedupVars, others>>

NextDownload ==
    \/ Open \/ OpenFails \/ SeparatorWrite \/ SeparatorWriteFails
    \/ FetchFails \/ FetchUnusable \/ Fetch
    \/ Write \/ WriteFails \/ Close \/ CloseFails
    \/ DedupOpen \/ DedupOpenFails \/ DedupRead \/ DedupReadFails
    \/ DedupWrite \/ DedupWriteFails \/ DedupReturn
    \/ Unlink \/ UnlinkFails \/ Rename \/ RenameFails
    \/ CleanupUnlink \/ CleanupUnlinkFails \/ Rethrow
    \/ HandleCollected

SpecDownload == InitDownload /\ [][NextDownload]_vars

\* Every call download awaits is eventually answered, with success or failure,
\* and the separator write eventually settles: a step that can be taken is taken.
SpecDownloadFair == SpecDownload /\ WF_vars(NextDownload)

(***************************************************************************)
(* The deduplication pass on its own, on any file content.                 *)
(***************************************************************************)
\* The longest content, counted in pieces.
MaxPieces == 4

\* The pieces the contents are made of.
Pieces ==
    {<<"x">>, <<LF>>, Marker, Marker \o <<LF>>, <<"0xFF">>, <<"0xC3", "0xA9">>,
     <<"0xE2", "0x82">>}

DedupContents == {Flatten(c) : c \in UNION {[1..n -> Pieces] : n \in 0..MaxPieces}}

InitDedup ==
    /\ now = 0
    /\ ticks = 0
    /\ cacheExpirationInterval \in FetchIntervals
    /\ store = <<>>
    /\ pending = {}
    /\ added = <<>>
    /\ ret = NoRet
    /\ FetcherUnused
    /\ opType = "append"
    /\ pc = "dedupOpen"
    /\ fs \in {[q \in {TargetPath} |-> c] : c \in DedupContents}
    /\ handles = {}
    /\ sep = "none"
    /\ response = RemoteError
    /\ buffer = <<>>
    /\ DedupLocalsUnset
    /\ result = Running
    /\ before = fs
    /\ CommandUnused

NextDedup == DedupOpen \/ DedupRead \/ DedupWrite \/ DedupReturn \/ HandleCollected

SpecDedup == InitDedup /\ [][NextDedup]_vars

(***************************************************************************)
(* Claims about deduplicate, checked under SpecDedup.                      *)
(***************************************************************************)
\* Whether line contains '* text=auto' somewhere.
ContainsMarker(line) ==
    \E a \in 0..Len(line) :
        /\ a + Len(Marker) <= Len(line)
        /\ \A j \in 1..Len(Marker) : line[a + j] = Marker[j]

\* What the rule puts out for the line at position i of ls: the two comment
\* lines when an earlier line contains the marker as well, the line otherwise.
RuleOutput(ls, i) ==
    IF ContainsMarker(ls[i]) /\ \E j \in 1..(i - 1) : ContainsMarker(ls[j])
    THEN <<CommentLine, <<"#", " ">> \o ls[i]>>
    ELSE <<ls[i]>>

\* What the rule puts out for the first n lines of ls.
RECURSIVE RuleOutputs(_, _)
RuleOutputs(ls, n) ==
    IF n = 0 THEN <<>> ELSE RuleOutputs(ls, n - 1) \o RuleOutput(ls, n)

\* The lines written to the new file: each write without its final line-feed.
WrittenLines == [k \in 1..Len(written) |-> SubSeq(written[k], 1, Len(written[k]) - 1)]

\* C8: the output of deduplicate is the input lines in their order, where a line
\* without '* text=auto' and the first line with it are written unchanged, and
\* every later line with it is replaced by the explanatory comment line followed
\* by '# ' + the line; every written line ends with one line-feed.
C8_DedupRule ==
    pc = "unlink" =>
        /\ WrittenLines = RuleOutputs(lines, Len(lines))
        /\ \A k \in 1..Len(written) : written[k][Len(written[k])] = LF
        /\ fs[NewPath] = Utf8(Flatten(written))

\* C8's case: three lines or more, of which at least two contain the marker and
\* one between them does not; the second marker line was replaced by two lines.
C8_Witness ==
    /\ pc = "unlink"
    /\ \E i, j, k \in 1..Len(lines) :
          /\ i < j /\ j < k
          /\ ContainsMarker(lines[i])
          /\ ~ContainsMarker(lines[j])
          /\ ContainsMarker(lines[k])
          /\ lines[k] # Marker
    /\ Len(written) > Len(lines)

\* C9: for a file content without a marker line, the file deduplicate produces
\* is byte for byte equal to the input, whether or not the input ends with a
\* line-feed.  The code writes one line-feed more than the input holds.
C9_NoMarkerByteIdentical ==
    (pc = "unlink" /\ \A i \in 1..Len(lines) : ~ContainsMarker(lines[i]))
        => fs[NewPath] = before[TargetPath]

(***************************************************************************)
(* Claims about download, checked under SpecDownload.                      *)
(***************************************************************************)
\* C10, as stated: in Overwrite mode, whenever download fails at a step after
\* the target was opened, the target file does not exist once download has
\* rejected.
C10_OverwriteFailureLeavesNoTarget ==
    (opType = "overwrite" /\ pc = "rejected" /\ result.error # "open")
        => TargetPath \notin DOMAIN fs

\* C10, amended: in Overwrite mode, whenever download fails at a step after the
\* target was opened and the unlink of its catch clause succeeds, the target
\* file does not exist once download has rejected.
C10_OverwriteFailureCleansUp ==
    (/\ opType = "overwrite"
     /\ pc = "rejected"
     /\ result.error \notin {"open", "cleanup unlink"})
    => TargetPath \notin DOMAIN fs

\* C10's case: an Overwrite download that had written the fetched content, failed
\* to close the file and rejected with that error, after which no target exists.
C10_Witness ==
    /\ opType = "overwrite"
    /\ pc = "rejected"
    /\ result = Rejected("close")
    /\ buffer # <<>>
    /\ TargetPath \notin DOMAIN fs

\* The content of the target when download was called; none is the empty content.
Original == IF TargetPath \in DOMAIN before THEN before[TargetPath] ELSE <<>>

\* C11: on every successful Append download, the bytes added to the target
\* before the deduplication pass are exactly one line-feed followed by the
\* decoded fetched content, in every order in which the separator write and the
\* content write complete.  download does not await the separator write, which
\* may complete after the content write, or fail without download failing.
C11_SeparatorOnceBeforeContent ==
    (opType = "append" /\ pc = "returned")
        => contents = Original \o <<LF>> \o buffer

\* The base64 encoding of bytes, without padding.
Base64Encode(bytes) ==
    LET at(i) == IF i <= Len(bytes) THEN ByteValue(bytes[i]) ELSE 0
        digit(k) ==
            LET q == (6 * k) \div 8
                r == (6 * k) % 8
            IN  ((at(q + 1) * 256 + at(q + 2)) \div (2 ^ (10 - r))) % 64
    IN  [k \in 1..((Len(bytes) * 8 + 5) \div 6) |-> Base64Alphabet[digit(k - 1) + 1]]

\* A character of base64 text that carries data: neither padding nor a line break.
IsPayloadChar(c) == c \notin {"=", LF}

\* C12: in Overwrite mode, a successful download onto a target that did not
\* exist leaves a target whose bytes are the decoded content exactly: the bytes
\* whose base64 encoding the content is when the encoding is 'base64', the raw
\* content otherwise, with nothing before or after.
C12_OverwriteWritesDecodedContent ==
    (opType = "overwrite" /\ pc = "returned" /\ TargetPath \notin DOMAIN before) =>
        /\ TargetPath \in DOMAIN fs
        /\ IF response.encoding = "base64"
           THEN Base64Encode(fs[TargetPath])
                    = SelectSeq(response.content.value, IsPayloadChar)
           ELSE fs[TargetPath] = response.content.value

\* C12's case: a successful Overwrite of a target that did not exist with base64
\* content, padded and ending with a line break, that decodes to the one byte 'x'.
C12_Witness ==
    /\ opType = "overwrite"
    /\ pc = "returned"
    /\ TargetPath \notin DOMAIN before
    /\ response.encoding = "base64"
    /\ response.content.value = <<"e", "A", "=", "=", LF>>
    /\ fs = [q \in {TargetPath} |-> <<"x">>]

\* C13: download fails with the content-type error exactly when the fetched
\* entry is not of type file or its content is absent; an entry of type file
\* whose content is present, the empty content included, is accepted and goes
\* on to be written.  The code rejects the empty content as well.
C13_ContentTypeErrorIffNotFileOrAbsent ==
    [][(pc = "fetch" /\ pc' # "fetch" /\ response'.kind = "entry") =>
          IF response'.type # "file" \/ ~response'.content.defined
          THEN pc' = "catch" /\ result'.error = "Response sent wrong type."
          ELSE pc' = "write"]_vars

\* C14: when download fails in Overwrite mode and the unlink of the catch clause
\* fails as well, the error download rejects with is still the original one.
\* The code awaits the unlink inside the catch clause, so its error replaces
\* the original.
C14_CleanupFailureKeepsOriginalError ==
    [][(opType = "overwrite" /\ pc = "catch" /\ pc' = "rejected")
          => result'.error = result.error]_vars

\* C15: in Append mode, whichever step fails, a file still exists at the target
\* path after download has rejected.  When the unlink succeeds and the rename
\* fails, the target is gone and only the '.new' file is left.
C15_AppendFailureKeepsTarget ==
    (opType = "append" /\ pc = "rejected" /\ TargetPath \in DOMAIN before)
        => TargetPath \in DOMAIN fs

\* C19: in Append mode, when the remote fetch fails, the target holds exactly
\* its content from before the call followed by one line-feed once download
\* has rejected.  The separator write is not awaited: when download rejects it
\* may not have reached the file yet, and it may have failed.
C19_FetchFailureLeavesSeparator ==
    (opType = "append" /\ pc = "rejected" /\ result.error = "fetch")
        => /\ TargetPath \in DOMAIN fs
           /\ fs[TargetPath] = Original \o <<LF>>

\* The deduplicated version of a content, by the rule of the pass: every line
\* the rule puts out, followed by a line-feed.
Deduplicated(c) ==
    LET ls == Split(BufferToString(c))
        outs == RuleOutputs(ls, Len(ls))
    IN  Utf8(Flatten([k \in 1..Len(outs) |-> outs[k] \o <<LF>>]))

\* C20: the deduplication pass runs exactly when the mode is Append and the
\* fetched content was written and the file closed: after a successful Append
\* the target is the deduplicated version of original + separator + fetched
\* content, and after a successful Overwrite the target is the fetched content,
\* never deduplicated.  The separator may land after the fetched content, or
\* not at all, so the content that is deduplicated may be another one.
C20_DedupExactlyOnAppend ==
    /\ (pc = "returned" /\ opType = "append")
          => fs[TargetPath] = Deduplicated(Original \o <<LF>> \o buffer)
    /\ (pc = "returned" /\ opType = "overwrite")
          => /\ fs[TargetPath] = buffer
             /\ written = <<>>
             /\ NewPath \notin DOMAIN fs
    /\ (pc \in {"dedupOpen", "dedupRead", "dedupLoop", "unlink", "rename"}
            \/ written # <<>> \/ NewPath \in DOMAIN fs)
          => /\ opType = "append"
             /\ "file" \notin handles
             /\ sep # "pending"

(***************************************************************************)
(* The command 'addgitattributes': one invocation of its handler, with the *)
(* getFiles call and the download it makes.                                *)
(***************************************************************************)
\* What the remote answers the handler's getFiles call with.
CommandResponses ==
    {CodedErrorResponse, ListingResponse(<<>>),
     ListingResponse(<<EntryC, EntryUpper, EntryA>>)}

\* The cache when the command is invoked: empty, or filled by an earlier invocation.
CommandStores ==
    {<<>>, [k \in {CacheKey(<<>>)} |-> NewCacheItem(CacheKey(<<>>), <<FileA>>, 0)]}

\* The messages shown when the command can first be invoked.  In the first
\* variant activate calls constructGithubSpace, whose catch clause shows an
\* error message when the client or the repository cannot be constructed.  The
\* second variant constructs them when the module is loaded: when that throws,
\* the extension is not activated and the command does not exist.
MessagesAfterActivate(v, repository) ==
    IF v = 1 /\ ~repository THEN <<ErrorMessage(MsgNoRepository)>> ELSE <<>>

InitCommand ==
    /\ now = 0
    /\ ticks = 0
    /\ cacheExpirationInterval \in FetchIntervals
    /\ store \in CommandStores
    /\ pending = {}
    /\ added = <<>>
    /\ ret = NoRet
    /\ variant \in {1, 2}
    /\ calls = [i \in 1..1 |-> IdleCall]
    /\ fetched = <<>>
    /\ done = NoDone
    /\ opType = "overwrite"
    /\ pc = "idle"
    /\ fs \in InitialFileSystems
    /\ handles = {}
    /\ sep = "none"
    /\ response = RemoteError
    /\ buffer = <<>>
    /\ DedupLocalsUnset
    /\ result = Running
    /\ before = fs
    /\ workspace \in {w \in Workspaces : variant = 2 => w.repository}
    /\ cmd = "start"
    /\ pickedFile = Undefined
    /\ quickPick = NoQuickPick
    /\ messages = MessagesAfterActivate(variant, workspace.repository)
    /\ command = CommandRunning

\* The handler ends in its catch clause, which caught reason.
Caught(reason) ==
    /\ messages' = MessagesAfterCatch(variant, reason, messages)
    /\ command' = CommandCompleted(reason)
    /\ cmd' = "done"

\* The handler shows an error message and throws a CancellationError inside
\* its try statement.
ShownAndCancelled(text) ==
    /\ messages' = MessagesAfterCatch(variant, Cancellation,
                                      Append(messages, ErrorMessage(text)))
    /\ command' = CommandCompleted(Cancellation)
    /\ cmd' = "done"

\* The handler, from its invocation to the call of getGitattributesFiles.  With
\* workspaceFolders undefined the first variant throws a CancellationError
\* outside its try statement and the second returns; an empty array of folders
\* passes the test.
CmdStart ==
    /\ cmd = "start"
    /\ IF ~workspace.folders.defined
       THEN /\ messages' = Append(messages, ErrorMessage(MsgNoWorkspace))
            /\ command' = IF variant = 1
                          THEN CommandRejected(Cancellation)
                          ELSE CommandCompleted(NoError)
            /\ cmd' = "done"
       ELSE IF variant = 1 /\ ~workspace.repository
            THEN ShownAndCancelled(MsgNoRepository)
            ELSE cmd' = "files" /\ UNCHANGED <<messages, command>>
    /\ UNCHANGED <<cacheVars, cacheHist, fetchVars, dlVars, dedupVars,
                   workspace, pickedFile, quickPick>>

\* getGitattributesFiles: gitattributesRepository.getFiles(), path being ''.
CmdGetFiles ==
    /\ cmd = "files"
    /\ done = NoDone
    /\ \A i \in DOMAIN calls : calls[i].pc = "idle"
    /\ GetFilesStart
    /\ done'.path = <<>>
    /\ \A i \in DOMAIN calls : calls'[i].path = <<>>

\* The response of the remote to the handler's getFiles call arrives: while
\* the quick pick waits for its items, or after the user has dismissed it and
\* the handler has completed, when getFiles still goes on and caches the
\* listing.
CmdFilesResponse ==
    /\ cmd \in {"files", "done"}
    /\ GetFilesRespond(CommandResponses)

\* await showQuickPick(getGitattributesFiles(...)): getFiles failed, and the
\* quick pick rejects with its error; or the files are sorted by label and
\* shown, and the user picks one of them or declines; or the user dismisses
\* the quick pick while getFiles still awaits the remote, and the quick pick
\* resolves with undefined as when the user declines.
CmdPick ==
    /\ cmd = "files"
    /\ \/ /\ done.op = "getFiles"
          /\ \A i \in DOMAIN calls : calls[i].pc = "idle"
          /\ IF ~done.outcome.ok
             THEN /\ Caught(ErrorOf(done.outcome.error))
                  /\ UNCHANGED <<pickedFile, quickPick>>
             ELSE LET items == SortByLabel(workspace.locale, done.outcome.result)
                  IN  \/ /\ \E i \in 1..Len(items) : pickedFile' = Some(items[i])
                         /\ quickPick' = [quickPick EXCEPT !.files = "picked"]
                         /\ cmd' = "folder"
                         /\ UNCHANGED <<messages, command>>
                      \/ /\ quickPick' = [quickPick EXCEPT !.files = "declined"]
                         /\ Caught(Cancellation)
                         /\ UNCHANGED pickedFile
       \/ /\ \E i \in DOMAIN calls : calls[i].pc = "awaiting"
          /\ quickPick' = [quickPick EXCEPT !.files = "declined"]
          /\ Caught(Cancellation)
          /\ UNCHANGED pickedFile
    /\ UNCHANGED <<cacheVars, cacheHist, fetchVars, dlVars, dedupVars, workspace>>

\* The handler works out path from the workspace folders and the active editor.
\* The first variant takes the only folder when there is one, and the folder
\* of the active editor otherwise.  The second variant asks the active editor
\* for its folder also when there is no editor, and reads workspaceFolder.uri
\* exactly when there is no folder.
CmdFolder ==
    /\ cmd = "folder"
    /\ IF workspace.folders.length > 1 /\ workspace.editor = "none"
       THEN ShownAndCancelled(MsgNoEditor)
       ELSE IF variant = 1
            THEN IF workspace.folders.length = 1 \/ workspace.editor = "inside"
                 THEN cmd' = "operation" /\ UNCHANGED <<messages, command>>
                 ELSE IF workspace.editor = "none"
                 THEN ShownAndCancelled(MsgNoActiveEditor)
                 ELSE ShownAndCancelled(MsgNoFolder)
            ELSE IF workspace.editor = "inside"
                 THEN ShownAndCancelled(MsgNoFolder)
                 ELSE IF workspace.editor = "none"
                 THEN Caught(PropertyOfUndefined("document"))
                 ELSE Caught(PropertyOfUndefined("uri"))
    /\ UNCHANGED <<cacheVars, cacheHist, fetchVars, dlVars, dedupVars,
                   workspace, pickedFile, quickPick>>

\* await getOperation(path, file) and what the handler does with its value:
\* undefined shows a message and cancels, an operation starts download.
\* fs.stat may reject although the file exists.
CmdOperation ==
    /\ cmd = "operation"
    /\ \E statSucceeds \in IF TargetPath \in DOMAIN fs THEN {TRUE, FALSE} ELSE {FALSE} :
          LET operation == GetOperation(statSucceeds)
          IN  /\ quickPick' = IF statSucceeds
                              THEN [quickPick EXCEPT !.operation = "shown"]
                              ELSE quickPick
              /\ IF operation.defined
                 THEN /\ opType' = operation.value
                      /\ pc' = "open"
                      /\ before' = fs
                      /\ cmd' = "download"
                      /\ UNCHANGED <<messages, command>>
                 ELSE /\ ShownAndCancelled(MsgUndefinedOperation)
                      /\ UNCHANGED <<opType, pc, before>>
    /\ UNCHANGED <<cacheVars, cacheHist, fetchVars, fs, handles, sep, response,
                   buffer, result, dedupVars, workspace, pickedFile>>

\* The user answers the Append/Overwrite quick pick, which nothing waits for:
\* a choice is dropped, and declining throws a CancellationError in a callback
\* whose promise nothing handles.
CmdPromptAnswer ==
    /\ quickPick.operation = "shown"
    /\ \E answer \in {"Append", "Overwrite", "declined"} :
          quickPick' = [quickPick EXCEPT !.operation = answer]
    /\ UNCHANGED <<cacheVars, cacheHist, fetchVars, dlVars, dedupVars,
                   workspace, cmd, pickedFile, messages, command>>

\* download has settled: showSuccessMessage(doneOperation), or the catch clause.
CmdDownloaded ==
    /\ cmd = "download"
    /\ pc \in {"returned", "rejected"}
    /\ IF pc = "returned"
       THEN /\ messages' = Append(messages,
                                  SuccessMessage(opType, pickedFile.value.description))
            /\ command' = CommandCompleted(NoError)
            /\ cmd' = "done"
       ELSE Caught(ErrorOf(<<result.error>>))
    /\ UNCHANGED <<cacheVars, cacheHist, fetchVars, dlVars, dedupVars,
                   workspace, pickedFile, quickPick>>

NextCommand ==
    \/ CmdStart \/ CmdGetFiles \/ CmdFilesResponse \/ CmdPick \/ CmdFolder
    \/ CmdOperation \/ CmdPromptAnswer
    \/ Open \/ OpenFails \/ FetchFails \/ FetchUnusable \/ Fetch
    \/ Write \/ WriteFails \/ Close \/ CloseFails
    \/ CleanupUnlink \/ CleanupUnlinkFails \/ HandleCollected
    \/ CmdDownloaded

SpecCommand == InitCommand /\ [][NextCommand]_vars

(***************************************************************************)
(* Claims about the command handler, checked under SpecCommand.            *)
(***************************************************************************)
\* C16: a CancellationError raised during the command is swallowed, that is the
\* command completes normally and no message is shown for it, and every other
\* error produces exactly one visible error message, built from the error's
\* string form.  The first variant throws the CancellationError for a missing
\* workspace outside its try statement, so the command rejects with it.
C16_CancellationSwallowedOthersShown ==
    cmd = "done" =>
        /\ command.reason.cancel
              => (command.status = "completed" /\ messages = <<>>)
        /\ (~command.reason.cancel /\ command.reason # NoError)
              => (/\ command.status = "completed"
                  /\ messages = <<ErrorMessage(ErrorString(command.reason))>>)

\* C17: if the user declines the template quick pick or the Append/Overwrite
\* quick pick, the command ends without an open, write, unlink or rename on the
\* target: download was never called, no handle is open and the file system is
\* as it was when the command was invoked.
C17_DeclineTouchesNoFile ==
    (quickPick.files = "declined" \/ quickPick.operation = "declined") =>
        /\ pc = "idle"
        /\ handles = {}
        /\ fs = before
        /\ cmd = "done"
        /\ command.reason = Cancellation

\* C17's case: the target exists, the user picked a template and then declined
\* the Append/Overwrite quick pick; the command has ended and the target is as
\* it was.
C17_Witness ==
    /\ quickPick = [files |-> "picked", operation |-> "declined"]
    /\ pickedFile.defined
    /\ cmd = "done"
    /\ TargetPath \in DOMAIN fs
    /\ fs = before
    /\ pc = "idle"

(***************************************************************************)
(* Further claims about download and deduplicate.                          *)
(***************************************************************************)
\* C24, checked under SpecDownload: the cleanup of a failed Overwrite deletes
\* the target only if this invocation created it; a target that existed before
\* an Overwrite download started still exists after that download has failed.
\* The catch clause tests the flags only, not whether the file was there.
C24_CleanupSparesExistingTarget ==
    (opType = "overwrite" /\ pc = "rejected" /\ TargetPath \in DOMAIN before)
        => TargetPath \in DOMAIN fs

\* C25, checked under SpecCommand: when the target exists and the user picks
\* Append or Overwrite in the operation quick pick, getOperation resolves with
\* an operation of that mode and download is run with it; getOperation does
\* not resolve before the user has answered.  getOperation resolves with
\* undefined as soon as the quick pick is shown, and the handler cancels.
C25_OperationIsTheChosenMode ==
    /\ quickPick.operation = "shown" => cmd = "operation"
    /\ quickPick.operation = "Append" => (cmd = "download" /\ opType = "append")
    /\ quickPick.operation = "Overwrite" => (cmd = "download" /\ opType = "overwrite")

\* C26, checked under SpecDownloadFair: every download invocation eventually
\* returns its operation or fails, provided every call it awaits eventually
\* completes or fails.
C26_DownloadTerminates == <>(pc \in {"returned", "rejected"})

\* C26's case: an Append download that went through every step, the loop of
\* deduplicate over three lines or more included, and returned.
C26_Witness ==
    /\ opType = "append"
    /\ pc = "returned"
    /\ result = ReturnedOperation
    /\ Len(lines) >= 3
    /\ idx = Len(lines)

\* C27, checked under SpecDownload: every file handle opened during a download,
\* that of the target and that of the '.new' file, is closed by the time
\* download returns or fails.  The code closes the target handle on the success
\* path only, and the '.new' handle nowhere.
C27_HandlesClosed ==
    pc \in {"returned", "rejected"} => handles = {}

\* C28, checked under SpecDownload: after a download has returned or failed, no
\* file remains at the target path + '.new'.  The code removes the '.new' file
\* on no failure path.
C28_NoNewFileRemains ==
    pc \in {"returned", "rejected"} => NewPath \notin DOMAIN fs

\* C29, checked under SpecDedup: deduplicate applied to its own output changes
\* no line.  A line commented out by an earlier pass still contains the marker
\* and is commented out again, and every pass adds an empty last line.
C29_DedupIdempotent ==
    pc = "unlink" =>
        Split(BufferToString(Deduplicate(fs[NewPath]))) = Split(BufferToString(fs[NewPath]))

====
